---------------------------- MODULE Spec2Model ----------------------------
(***************************************************************************)
(* Resume parser: the hybrid extraction pipeline of app/api/routes.py      *)
(* (parse_resume_sync), the rule-based scorer of                           *)
(* app/services/rule_based_parser.py and the generative adapter of         *)
(* app/services/llm_parser.py, the extractor of                             *)
(* app/services/text_extractor.py.                                         *)
(*                                                                         *)
(* Numbers.  A confidence is a Python float; every value the two scorers   *)
(* can produce is a multiple of 0.025, so a float x is modelled by the     *)
(* integer 1000 * x (0.85 is 850, 1.0 is 1000).  Inside                    *)
(* _calculate_confidence the local score runs over 0..100 in steps of 2.5  *)
(* and is modelled in tenths of a point (15 is 150, 2.5 is 25).            *)
(*                                                                         *)
(* Python values that may be a float or None are modelled by a tagged      *)
(* record, PyFloat(n) or PyNone.  An optional value (a local not yet       *)
(* assigned, ParseResponse.data) is a sequence of length 0 or 1.           *)
(*                                                                         *)
(* Strings.  Where the characters matter (the segmenter, the extractors,   *)
(* the carving of a provider's response) a Python str is a sequence of     *)
(* one-character strings, and a dict with str keys is a function.          *)
(*                                                                         *)
(* Specifications.  Spec is one request through parse_resume_sync;         *)
(* RuleSpec is a series of calls of RuleBasedParser.parse on one           *)
(* instance; SegmentSpec is _split_into_sections line by line; HeaderSpec  *)
(* is the same on two-line texts that try the header test; CarveSpec is a  *)
(* provider's response on its way to json.loads; ValidateSpec is what      *)
(* json.loads returned on its way through _convert_to_pydantic; ConcSpec   *)
(* is two requests in flight on the one event loop.                        *)
(***************************************************************************)
EXTENDS Integers, Sequences, FiniteSets, TLC

(***************************************************************************)
(* Bounds of the model.                                                    *)
(***************************************************************************)
\* longest extracted text, in characters
MaxTextLen == 1
\* largest elapsed wall-clock time (time.time() - start_time), in ticks
MaxElapsed == 1
\* calls of rule_parser.parse on the one parser instance
MaxCalls == 3
\* lines of a document handed to the segmenter
MaxDocLines == 4
\* longest response of a provider, in characters
MaxContentLen == 4

(***************************************************************************)
(* State.                                                                  *)
(***************************************************************************)
VARIABLES
    \* LLMParser.__init__: whether each client was built (its key is set)
    openai_client, anthropic_client,
    \* where parse_resume_sync stands
    pc,
    \* its parameters
    file, use_llm_fallback, llm_provider,
    \* its locals
    text, parsed_resume, confidence, llm_resume, llm_confidence,
    \* what the caller receives
    response,
    \* history: calls made so far by this request
    rule_calls, llm_calls, openai_calls, anthropic_calls,
    \* history: what rule_parser.parse returned, and how llm_parser.parse ended
    rule_returned, llm_outcome,
    \* rule_parser.parse on the text of a document: the calls made so far on
    \* the instance, the text, the sections dict and the outcome of the
    \* latest call, and for each text parsed the outcome of its first parse
    rp_calls, rp_text, rp_sections, rp_result, rp_first,
    \* _split_into_sections line by line: where it stands, its argument,
    \* the lines still to visit, and its locals
    seg_pc, seg_text, seg_lines, seg_locals,
    \* a provider's response on its way through json.loads: where it
    \* stands, the provider, response text, and how json.loads ended
    car_pc, car_provider, car_content, car_result,
    \* what json.loads returned on its way through _convert_to_pydantic:
    \* where it stands, the value, and the record that comes back
    val_pc, val_payload, val_result,
    \* several calls of parse_resume_sync in flight: for each one where it
    \* stands, its parameters, its locals, its response and what it has been
    \* given; the request that holds the event loop's thread; history: the
    \* pair that the latest call of rule_parser.parse returned
    req, loop_owner, rule_parser_last

(***************************************************************************)
(* Python values.                                                          *)
(***************************************************************************)
PyNone == [t |-> "None", v |-> 0]
PyFloat(n) == [t |-> "float", v |-> n]

\* Python's ">" on two values: a bool, or TypeError when an operand is None
\* ('>' not supported between instances of 'NoneType' and 'float').
PyGreater(a, b) ==
    IF a.t = "float" /\ b.t = "float"
    THEN (IF a.v > b.v THEN "True" ELSE "False")
    ELSE "TypeError"

Min(a, b) == IF a <= b THEN a ELSE b

(***************************************************************************)
(* app/config.py                                                           *)
(***************************************************************************)
\* RULE_CONFIDENCE_THRESHOLD: float = 0.85
RULE_CONFIDENCE_THRESHOLD == 850
\* MAX_FILE_SIZE = 10 * 1024 * 1024
MAX_FILE_SIZE == 10485760
SUPPORTED_FORMATS == {"pdf", "docx", "doc", "txt", "png", "jpg", "jpeg"}

(***************************************************************************)
(* app/models/resume_models.py: a ParsedResume is modelled by the set of   *)
(* its fields that are populated (truthy: a non-empty string, a non-empty  *)
(* list) and by its three bookkeeping fields.                              *)
(***************************************************************************)
RuleScoredFields ==
    {"full_name", "email", "phone", "experience", "education", "skills",
     "summary", "certifications", "projects"}
LLMScoredFields ==
    {"full_name", "email", "phone", "experience", "education", "skills",
     "summary"}

\* ParsedResume(): every field at its default
DefaultParsedResume ==
    [populated |-> {}, confidence_score |-> PyFloat(0),
     parsing_method |-> "unknown", processing_time |-> 0]

(***************************************************************************)
(* app/services/rule_based_parser.py                                       *)
(***************************************************************************)
\* the local `score` of _calculate_confidence when it returns, in tenths of
\* a point
RuleScore_noProjects(p) ==
      (IF "full_name" \in p THEN 150 ELSE 0)
    + (IF "email" \in p THEN 150 ELSE 0)
    + (IF "phone" \in p THEN 100 ELSE 0)
    + (IF "experience" \in p THEN 200 ELSE 0)
    + (IF "education" \in p THEN 150 ELSE 0)
    + (IF "skills" \in p THEN 150 ELSE 0)
    + (IF "summary" \in p THEN 50 ELSE 0)
    + (IF "certifications" \in p THEN 25 ELSE 0)
RuleScore_lightExperience(p) ==
      (IF "full_name" \in p THEN 150 ELSE 0)
    + (IF "email" \in p THEN 150 ELSE 0)
    + (IF "phone" \in p THEN 100 ELSE 0)
    + (IF "experience" \in p THEN 100 ELSE 0)
    + (IF "education" \in p THEN 150 ELSE 0)
    + (IF "skills" \in p THEN 250 ELSE 0)
    + (IF "summary" \in p THEN 50 ELSE 0)
    + (IF "certifications" \in p THEN 25 ELSE 0)
    + (IF "projects" \in p THEN 25 ELSE 0)
RuleScore(p) ==
      (IF "full_name" \in p THEN 150 ELSE 0)
    + (IF "email" \in p THEN 150 ELSE 0)
    + (IF "phone" \in p THEN 100 ELSE 0)
    + (IF "experience" \in p THEN 200 ELSE 0)
    + (IF "education" \in p THEN 150 ELSE 0)
    + (IF "skills" \in p THEN 150 ELSE 0)
    + (IF "summary" \in p THEN 50 ELSE 0)
    + (IF "certifications" \in p THEN 25 ELSE 0)
    + (IF "projects" \in p THEN 25 ELSE 0)

\* max_score = 100.0, in tenths of a point
max_score == 1000

\* return min(score / max_score, 1.0)
_calculate_confidence(p) ==
    PyFloat(Min((RuleScore(p) * 1000) \div max_score, 1000))

\* RuleBasedParser.parse once the field extractors have returned: p is the
\* set of fields they populated.  The record is built with
\* parsing_method="rule_based", scored, and stamped with its score.
RuleBasedParser_parse_unstamped(p) ==
    [record |-> [populated |-> p, confidence_score |-> PyFloat(0),
                 parsing_method |-> "rule_based", processing_time |-> 0],
     confidence |-> _calculate_confidence(p)]
RuleBasedParser_parse(p) ==
    [record |-> [populated |-> p,
                 confidence_score |-> _calculate_confidence(p),
                 parsing_method |-> "rule_based", processing_time |-> 0],
     confidence |-> _calculate_confidence(p)]

(***************************************************************************)
(* app/services/llm_parser.py                                              *)
(***************************************************************************)
Providers == {"openai", "anthropic", "gemini"}

\* What the provider's API call can come to: the call raises (timeout,
\* network, authentication), the content is not parseable JSON, or it is
\* JSON: a payload that validates against ParsedResume or not, carrying
\* values for the fields in `populated`.
ProviderResponses ==
    {[kind |-> "api_error", valid |-> FALSE, populated |-> {}],
     [kind |-> "not_json", valid |-> FALSE, populated |-> {}]}
    \cup [kind : {"json"}, valid : BOOLEAN, populated : SUBSET LLMScoredFields]

\* the local `score` of _calculate_llm_confidence at its last statement
LLMScore_noSummary(p) ==
      (IF "full_name" \in p THEN 200 ELSE 0)
    + (IF "email" \in p THEN 150 ELSE 0)
    + (IF "phone" \in p THEN 100 ELSE 0)
    + (IF "experience" \in p THEN 250 ELSE 0)
    + (IF "education" \in p THEN 150 ELSE 0)
    + (IF "skills" \in p THEN 100 ELSE 0)
LLMScore(p) ==
      (IF "full_name" \in p THEN 200 ELSE 0)
    + (IF "email" \in p THEN 150 ELSE 0)
    + (IF "phone" \in p THEN 100 ELSE 0)
    + (IF "experience" \in p THEN 250 ELSE 0)
    + (IF "education" \in p THEN 150 ELSE 0)
    + (IF "skills" \in p THEN 100 ELSE 0)
    + (IF "summary" \in p THEN 50 ELSE 0)

\* _calculate_llm_confidence accumulates score and ends after
\* `score += 0.05` with no return statement: the call evaluates to None.
_calculate_llm_confidence(p) == PyNone

\* try: ParsedResume.model_validate(data)  except: ParsedResume()
_convert_to_pydantic(data) ==
    IF data.valid
    THEN [DefaultParsedResume EXCEPT !.populated = data.populated]
    ELSE DefaultParsedResume

\* _parse_with_openai / _parse_with_anthropic from the API call's outcome
\* on: json.loads, _convert_to_pydantic, the method tag, the score.  Any
\* exception inside is re-raised as "<Provider> parsing error".
_parse_with_provider_lenient(name, resp) ==
    IF resp.kind = "api_error"
    THEN [raised |-> TRUE, record |-> DefaultParsedResume,
          confidence |-> PyNone]
    ELSE [raised |-> FALSE,
          record |-> [DefaultParsedResume EXCEPT
                         !.parsing_method = "llm_" \o name,
                         !.confidence_score = PyNone],
          confidence |-> PyNone]
_parse_with_provider(name, resp) ==
    IF resp.kind # "json"
    THEN [raised |-> TRUE, record |-> DefaultParsedResume,
          confidence |-> PyNone]
    ELSE LET resume == _convert_to_pydantic(resp)
             conf == _calculate_llm_confidence(resume.populated)
         IN  [raised |-> FALSE,
              record |-> [resume EXCEPT
                             !.parsing_method = "llm_" \o name,
                             !.confidence_score = conf],
              confidence |-> conf]

\* LLMParser.parse: the client it awaits, "" when it raises ValueError
\* (provider not available or not configured)
LLMParser_parse_fallback(provider, openai, anthropic) ==
    IF provider = "openai" /\ openai THEN "openai"
    ELSE IF provider = "anthropic" /\ anthropic THEN "anthropic"
    ELSE IF openai THEN "openai"
    ELSE IF anthropic THEN "anthropic"
    ELSE ""
LLMParser_parse(provider, openai, anthropic) ==
    IF provider = "openai" /\ openai THEN "openai"
    ELSE IF provider = "anthropic" /\ anthropic THEN "anthropic"
    ELSE ""

(***************************************************************************)
(* app/api/routes.py: parse_resume_sync                                    *)
(***************************************************************************)
Chars == {" ", "a"}
IsSpace(c) == c \in {" ", "\t", "\n", "\r"}
Texts == UNION {[1..n -> Chars] : n \in 0..MaxTextLen}

\* str.strip()
RECURSIVE LStrip(_)
LStrip(s) ==
    IF s # <<>> /\ IsSpace(Head(s)) THEN LStrip(Tail(s)) ELSE s
RECURSIVE RStrip(_)
RStrip(s) ==
    IF s # <<>> /\ IsSpace(s[Len(s)])
    THEN RStrip(SubSeq(s, 1, Len(s) - 1)) ELSE s
Strip(s) == RStrip(LStrip(s))

\* line 226: if not text.strip()
NoText_unstripped(t) == t = <<>>
NoText(t) == Strip(t) = <<>>

\* An uploaded file: its name as the parts between dots, and its size.
Files ==
    [filename : {<<>>, <<"cv">>, <<"cv", "exe">>, <<"cv", "TXT">>},
     size : {MAX_FILE_SIZE, MAX_FILE_SIZE + 1}]

\* str.lower() on the extensions above
Lower(s) == IF s = "TXT" THEN "txt" ELSE s

\* file.filename.split('.')[-1].lower()
file_extension(filename) == Lower(filename[Len(filename)])

\* the responses of the endpoint: an HTTPException or a ParseResponse
HTTPError(status, detail) ==
    [kind |-> "HTTPException", status |-> status, success |-> FALSE,
     data |-> <<>>, error |-> detail]
ParseResponse(success, data, error) ==
    [kind |-> "ParseResponse", status |-> 200, success |-> success,
     data |-> data, error |-> error]

\* line 231: confidence < settings.RULE_CONFIDENCE_THRESHOLD and use_llm_fallback
ShouldEscalate_inclusive(conf, fallback) ==
    conf.v <= RULE_CONFIDENCE_THRESHOLD /\ fallback
ShouldEscalate(conf, fallback) ==
    conf.v < RULE_CONFIDENCE_THRESHOLD /\ fallback

\* lines 234-237: if llm_confidence > confidence: parsed_resume = llm_resume,
\* inside try/except Exception: a TypeError of the comparison is swallowed
\* like any other failure and parsed_resume is left as it was.
Merge(rule_resume, conf, gen_resume, gen_conf) ==
    IF PyGreater(gen_conf, conf) = "True" THEN gen_resume ELSE rule_resume

\* lines 236-237: except Exception as e: print(...).  TRUE when the parse
\* goes on to line 239 after a failure of the generative call.
LLMFailureSwallowed_reraise == FALSE
LLMFailureSwallowed == TRUE

\* where the handler goes on after the except clause of lines 236-237: to
\* line 239, with no second attempt
AfterLLMFailure_retry == "escalating"
AfterLLMFailure == "merged"

(***************************************************************************)
(* Python strings.  A str is a sequence of one-character strings, so that  *)
(* strip, lower, split, join, `in` and the regular expressions of the      *)
(* parser are computed character by character.                             *)
(***************************************************************************)
NL == "\n"
Digits == {"0", "1", "2", "3", "4", "5", "6", "7", "8", "9"}
UpperLetters ==
    <<"A", "B", "C", "D", "E", "F", "G", "H", "I", "J", "K", "L", "M", "N",
      "O", "P", "Q", "R", "S", "T", "U", "V", "W", "X", "Y", "Z">>
LowerLetters ==
    <<"a", "b", "c", "d", "e", "f", "g", "h", "i", "j", "k", "l", "m", "n",
      "o", "p", "q", "r", "s", "t", "u", "v", "w", "x", "y", "z">>
UpperSet == {UpperLetters[i] : i \in 1..Len(UpperLetters)}
LowerSet == {LowerLetters[i] : i \in 1..Len(LowerLetters)}
\* the regular expression class \w
WordChars == UpperSet \cup LowerSet \cup Digits \cup {"_"}

\* str.lower()
LowerOf ==
    [c \in UpperSet |->
        LowerLetters[CHOOSE i \in 1..Len(UpperLetters) : UpperLetters[i] = c]]
ToLower(c) == IF c \in UpperSet THEN LowerOf[c] ELSE c
str_lower(s) == [i \in 1..Len(s) |-> ToLower(s[i])]

\* s[i:].startswith(sub), positions from 1
StartsWithAt(s, i, sub) ==
    /\ i + Len(sub) - 1 <= Len(s)
    /\ \A k \in 1..Len(sub) : s[i + k - 1] = sub[k]
\* sub in s
Contains(s, sub) ==
    \E i \in 1..(Len(s) - Len(sub) + 1) : StartsWithAt(s, i, sub)
\* s.find(sub, from): the first position at or after `from`, 0 when none
Find(s, sub, from) ==
    LET hits == {i \in from..(Len(s) - Len(sub) + 1) : StartsWithAt(s, i, sub)}
    IN  IF hits = {} THEN 0
        ELSE CHOOSE i \in hits : \A j \in hits : i <= j
\* s.rfind(sub): the last position, 0 when none
RFind(s, sub) ==
    LET hits == {i \in 1..(Len(s) - Len(sub) + 1) : StartsWithAt(s, i, sub)}
    IN  IF hits = {} THEN 0
        ELSE CHOOSE i \in hits : \A j \in hits : j <= i

\* s.split(sep) for a non-empty separator
RECURSIVE Split(_, _)
Split(s, sep) ==
    LET i == Find(s, sep, 1)
    IN  IF i = 0 THEN <<s>>
        ELSE <<SubSeq(s, 1, i - 1)>>
                 \o Split(SubSeq(s, i + Len(sep), Len(s)), sep)

\* sep.join(parts)
RECURSIVE Join(_, _)
Join(parts, sep) ==
    IF parts = <<>> THEN <<>>
    ELSE IF Len(parts) = 1 THEN parts[1]
    ELSE parts[1] \o sep \o Join(Tail(parts), sep)

\* [f(x) for x in seq if keep(x)] with f = strip and keep = non-blank:
\* [line.strip() for line in seq if line.strip()]
RECURSIVE StrippedNonBlank(_)
StrippedNonBlank(seq) ==
    IF seq = <<>> THEN <<>>
    ELSE IF Strip(Head(seq)) = <<>> THEN StrippedNonBlank(Tail(seq))
    ELSE <<Strip(Head(seq))>> \o StrippedNonBlank(Tail(seq))

\* a dict with str keys: a function on the set of its keys
EmptyDict == [k \in {} |-> <<>>]
DictPut(d, key, value) ==
    [k \in DOMAIN d \cup {key} |-> IF k = key THEN value ELSE d[k]]
\* d.get(key, '')
DictGet(d, key) == IF key \in DOMAIN d THEN d[key] ELSE <<>>

(***************************************************************************)
(* RuleBasedParser._split_into_sections                                    *)
(***************************************************************************)
\* self.section_keywords, in insertion order
section_keywords ==
    <<[section |-> "experience",
       keywords |-> <<
            <<"e", "x", "p", "e", "r", "i", "e", "n", "c", "e">>,
            <<"w", "o", "r", "k", " ", "e", "x", "p", "e", "r", "i", "e",
            "n", "c", "e">>,
            <<"e", "m", "p", "l", "o", "y", "m", "e", "n", "t">>,
            <<"w", "o", "r", "k", " ", "h", "i", "s", "t", "o", "r", "y">>,
            <<"p", "r", "o", "f", "e", "s", "s", "i", "o", "n", "a", "l",
            " ", "e", "x", "p", "e", "r", "i", "e", "n", "c", "e">>>>],
      [section |-> "education",
       keywords |-> <<
            <<"e", "d", "u", "c", "a", "t", "i", "o", "n">>,
            <<"a", "c", "a", "d", "e", "m", "i", "c", " ", "b", "a", "c",
            "k", "g", "r", "o", "u", "n", "d">>,
            <<"q", "u", "a", "l", "i", "f", "i", "c", "a", "t", "i", "o",
            "n", "s">>,
            <<"d", "e", "g", "r", "e", "e", "s">>>>],
      [section |-> "skills",
       keywords |-> <<
            <<"s", "k", "i", "l", "l", "s">>,
            <<"t", "e", "c", "h", "n", "i", "c", "a", "l", " ", "s", "k",
            "i", "l", "l", "s">>,
            <<"c", "o", "m", "p", "e", "t", "e", "n", "c", "i", "e", "s">>,
            <<"e", "x", "p", "e", "r", "t", "i", "s", "e">>,
            <<"t", "e", "c", "h", "n", "o", "l", "o", "g", "i", "e", "s">>>>],
      [section |-> "certifications",
       keywords |-> <<
            <<"c", "e", "r", "t", "i", "f", "i", "c", "a", "t", "i", "o",
            "n", "s">>,
            <<"c", "e", "r", "t", "i", "f", "i", "c", "a", "t", "e", "s">>,
            <<"l", "i", "c", "e", "n", "s", "e", "s">>,
            <<"c", "r", "e", "d", "e", "n", "t", "i", "a", "l", "s">>>>],
      [section |-> "projects",
       keywords |-> <<
            <<"p", "r", "o", "j", "e", "c", "t", "s">>,
            <<"p", "e", "r", "s", "o", "n", "a", "l", " ", "p", "r", "o",
            "j", "e", "c", "t", "s">>,
            <<"p", "o", "r", "t", "f", "o", "l", "i", "o">>,
            <<"w", "o", "r", "k", " ", "s", "a", "m", "p", "l", "e", "s">>>>],
      [section |-> "summary",
       keywords |-> <<
            <<"s", "u", "m", "m", "a", "r", "y">>,
            <<"o", "b", "j", "e", "c", "t", "i", "v", "e">>,
            <<"p", "r", "o", "f", "i", "l", "e">>,
            <<"a", "b", "o", "u", "t", " ", "m", "e">>,
            <<"o", "v", "e", "r", "v", "i", "e", "w">>>>],
      [section |-> "languages",
       keywords |-> <<
            <<"l", "a", "n", "g", "u", "a", "g", "e", "s">>,
            <<"l", "a", "n", "g", "u", "a", "g", "e", " ", "s", "k", "i",
            "l", "l", "s">>,
            <<"l", "i", "n", "g", "u", "i", "s", "t", "i", "c", " ", "s",
            "k", "i", "l", "l", "s">>>>]>>

\* the longest line that can still be a header is one shorter than this
HeaderMaxLen == 50

\* line 73, for one keyword: keyword.lower() in line.lower() and len(line) < 50
KeywordMatches_caseSensitive(line, keyword) ==
    Contains(line, keyword) /\ Len(line) < HeaderMaxLen
KeywordMatches(line, keyword) ==
    Contains(str_lower(line), str_lower(keyword)) /\ Len(line) < HeaderMaxLen

\* lines 70-77: the first section, in dictionary order, one of whose
\* keywords matches the line; "None" when no section does
SectionMatches(line, i) ==
    \E k \in 1..Len(section_keywords[i].keywords) :
        KeywordMatches(line, section_keywords[i].keywords[k])
section_found(line) ==
    LET hits == {i \in 1..Len(section_keywords) : SectionMatches(line, i)}
    IN  IF hits = {} THEN "None"
        ELSE section_keywords[CHOOSE i \in hits : \A j \in hits : i <= j].section

\* line 59: sections = {}
InitialSections_stale == rp_sections
InitialSections == EmptyDict

\* lines 80-82, 91-92: if current_content: sections[current_section] = ...
Flush_append(secs, cur_section, cur_content) ==
    IF cur_content # <<>>
    THEN DictPut(secs, cur_section,
                 IF cur_section \in DOMAIN secs
                 THEN secs[cur_section] \o <<NL>> \o Join(cur_content, <<NL>>)
                 ELSE Join(cur_content, <<NL>>))
    ELSE secs
Flush(secs, cur_section, cur_content) ==
    IF cur_content # <<>>
    THEN DictPut(secs, cur_section, Join(cur_content, <<NL>>))
    ELSE secs

\* lines 64-88: one turn of the loop, on the raw line `raw`; st holds the
\* locals sections, current_section and current_content
SegmentStep_keepBlank(st, raw) ==
    LET line == Strip(raw)
        found == section_found(line)
    IN  IF line # <<>> /\ found # "None"
        THEN [sections |-> Flush(st.sections, st.current_section,
                                 st.current_content),
              current_section |-> found,
              current_content |-> <<>>]
        ELSE [st EXCEPT !.current_content = Append(@, line)]
SegmentStep_keepSameHeader(st, raw) ==
    LET line == Strip(raw)
        found == section_found(line)
    IN  IF line = <<>> THEN st
        ELSE IF found # "None" /\ found # st.current_section
        THEN [sections |-> Flush(st.sections, st.current_section,
                                 st.current_content),
              current_section |-> found,
              current_content |-> <<>>]
        ELSE [st EXCEPT !.current_content = Append(@, line)]
SegmentStep(st, raw) ==
    LET line == Strip(raw)
        found == section_found(line)
    IN  IF line = <<>> THEN st
        ELSE IF found # "None"
        THEN [sections |-> Flush(st.sections, st.current_section,
                                 st.current_content),
              current_section |-> found,
              current_content |-> <<>>]
        ELSE [st EXCEPT !.current_content = Append(@, line)]

\* the whole of _split_into_sections, from the sections dict `start`
RECURSIVE SegmentLoop(_, _)
SegmentLoop(st, lines) ==
    IF lines = <<>> THEN st
    ELSE SegmentLoop(SegmentStep(st, Head(lines)), Tail(lines))
_split_into_sections(txt) ==
    LET st == SegmentLoop([sections |-> InitialSections,
                           current_section |-> "header",
                           current_content |-> <<>>],
                          Split(txt, <<NL>>))
    IN  Flush(st.sections, st.current_section, st.current_content)

(***************************************************************************)
(* RuleBasedParser.__init__: the regular expressions.  An optional value   *)
(* (a str or None) is a sequence of length 0 or 1.                         *)
(***************************************************************************)
CharAt(s, i) == IF 1 <= i /\ i <= Len(s) THEN s[i] ELSE ""
\* \b between positions i - 1 and i
WordBoundary(s, i) == (CharAt(s, i - 1) \in WordChars) # (CharAt(s, i) \in WordChars)
\* every character of s[i .. j - 1] is in the class C
AllIn(s, i, j, C) == \A k \in i..(j - 1) : s[k] \in C
\* the end of the longest run of characters of C from i (i when there is none)
RECURSIVE RunEnd(_, _, _)
RunEnd(s, i, C) ==
    IF CharAt(s, i) \in C THEN RunEnd(s, i + 1, C) ELSE i

\* email_pattern = \b[A-Za-z0-9._%+-]+@[A-Za-z0-9.-]+\.[A-Z|a-z]{2,}\b
EmailLocalClass == UpperSet \cup LowerSet \cup Digits \cup {".", "_", "%", "+", "-"}
EmailDomainClass == UpperSet \cup LowerSet \cup Digits \cup {".", "-"}
EmailTldClass == UpperSet \cup LowerSet \cup {"|"}
\* the ends (exclusive) of [A-Z|a-z]{2,}\b after the dot at d
EmailTldEnds(s, d) ==
    {e \in (d + 3)..(Len(s) + 1) :
        AllIn(s, d + 1, e, EmailTldClass) /\ WordBoundary(s, e)}
\* the positions of the dot that ends the domain, for a local part i .. a - 1
EmailDots(s, a) ==
    {d \in (a + 2)..Len(s) :
        /\ AllIn(s, a + 1, d, EmailDomainClass)
        /\ s[d] = "."
        /\ EmailTldEnds(s, d) # {}}
\* the position of "@" for a match that starts at i, 0 when there is none
EmailAt(s, i) ==
    LET ats == {a \in (i + 1)..Len(s) :
                   s[a] = "@" /\ AllIn(s, i, a, EmailLocalClass)}
    IN  IF WordBoundary(s, i) /\ ats # {} THEN CHOOSE a \in ats : TRUE ELSE 0
\* the end (exclusive) of the match that starts at i, 0 when there is none:
\* the quantifiers are greedy, so the last feasible dot and the longest tail
EmailMatchEnd(s, i) ==
    LET a == EmailAt(s, i)
    IN  IF a = 0 \/ EmailDots(s, a) = {} THEN 0
        ELSE LET d == CHOOSE x \in EmailDots(s, a) :
                          \A y \in EmailDots(s, a) : y <= x
                 es == EmailTldEnds(s, d)
             IN  CHOOSE e \in es : \A f \in es : f <= e
EmailStarts(s) == {i \in 1..Len(s) : EmailMatchEnd(s, i) # 0}
\* email_pattern.search(s)
EmailSearch(s) == EmailStarts(s) # {}
\* email_pattern.findall(s)[0], when there is a match
EmailFirst(s) ==
    LET starts == EmailStarts(s)
        i == CHOOSE x \in starts : \A y \in starts : x <= y
    IN  IF starts = {} THEN <<>>
        ELSE <<SubSeq(s, i, EmailMatchEnd(s, i) - 1)>>

\* phone_pattern =
\*   (\+\d{1,3}[-.\s]?)?\(?\d{3}\)?[-.\s]?\d{3}[-.\s]?\d{4}
PhoneSep == {"-", ".", " ", "\t", "\n", "\r"}
\* from the positions P: optionally one character of the class C
OptChar(s, P, C) == P \cup {p + 1 : p \in {q \in P : CharAt(s, q) \in C}}
\* from the positions P: exactly n digits
NDigits(s, P, n) ==
    {p + n : p \in {q \in P : q + n - 1 <= Len(s) /\ AllIn(s, q, q + n, Digits)}}
\* the ends (exclusive) of \(?\d{3}\)?[-.\s]?\d{3}[-.\s]?\d{4} from j
PhoneRestEnds(s, j) ==
    NDigits(s,
        OptChar(s,
            NDigits(s,
                OptChar(s,
                    OptChar(s, NDigits(s, OptChar(s, {j}, {"("}), 3), {")"}),
                    PhoneSep),
                3),
            PhoneSep),
        4)
\* the ends (exclusive) of the group \+\d{1,3}[-.\s]? from i, in the order
\* the greedy quantifiers try them
PhoneGroupEnds(s, i) ==
    IF CharAt(s, i) # "+" THEN <<>>
    ELSE LET try(n) ==
                 IF NDigits(s, {i + 1}, n) = {} THEN <<>>
                 ELSE IF CharAt(s, i + 1 + n) \in PhoneSep
                 THEN <<i + 2 + n, i + 1 + n>>
                 ELSE <<i + 1 + n>>
         IN  try(3) \o try(2) \o try(1)
\* the first group end after which the rest of the pattern matches, 0 if none
RECURSIVE PhoneFirstGroupEnd(_, _)
PhoneFirstGroupEnd(s, ends) ==
    IF ends = <<>> THEN 0
    ELSE IF PhoneRestEnds(s, Head(ends)) # {} THEN Head(ends)
    ELSE PhoneFirstGroupEnd(s, Tail(ends))
\* whether the pattern matches at i
PhoneMatchesAt(s, i) ==
    \/ PhoneFirstGroupEnd(s, PhoneGroupEnds(s, i)) # 0
    \/ PhoneRestEnds(s, i) # {}
PhoneStarts(s) == {i \in 1..Len(s) : PhoneMatchesAt(s, i)}
\* phone_pattern.search(s)
PhoneSearch(s) == PhoneStarts(s) # {}
\* what findall puts in its list for the match at i: the pattern has one
\* group, so it is the text of group 1, '' when the group took no part
PhoneFindallItem(s, i) ==
    LET g == PhoneFirstGroupEnd(s, PhoneGroupEnds(s, i))
    IN  IF g # 0 THEN SubSeq(s, i, g - 1) ELSE <<>>
\* phone_pattern.findall(s)[0], when there is a match
PhoneFirst(s) ==
    LET starts == PhoneStarts(s)
        i == CHOOSE x \in starts : \A y \in starts : x <= y
    IN  IF starts = {} THEN <<>>
        ELSE <<PhoneFindallItem(s, i)>>

\* linkedin_pattern = linkedin\.com/in/[\w-]+ and github_pattern =
\* github\.com/[\w-]+, both with re.IGNORECASE: a literal prefix and a
\* greedy run of [\w-]
HandleClass == WordChars \cup {"-"}
PrefixRunStarts(s, prefix) ==
    LET low == str_lower(s)
    IN  {i \in 1..Len(s) :
            /\ StartsWithAt(low, i, prefix)
            /\ CharAt(s, i + Len(prefix)) \in HandleClass}
PrefixRunSearch(s, prefix) == PrefixRunStarts(s, prefix) # {}
PrefixRunFirst(s, prefix) ==
    LET starts == PrefixRunStarts(s, prefix)
        i == CHOOSE x \in starts : \A y \in starts : x <= y
    IN  IF starts = {} THEN <<>>
        ELSE <<SubSeq(s, i, RunEnd(s, i + Len(prefix), HandleClass) - 1)>>
LinkedinPrefix ==
    <<"l", "i", "n", "k", "e", "d", "i", "n", ".", "c", "o", "m", "/", "i",
      "n", "/">>
GithubPrefix == <<"g", "i", "t", "h", "u", "b", ".", "c", "o", "m", "/">>
HttpsPrefix == <<"h", "t", "t", "p", "s", ":", "/", "/">>

(***************************************************************************)
(* resume_models.py: PersonalInfo.email is an EmailStr.  Of the address    *)
(* syntax the validator enforces, the part that email_pattern does not:    *)
(* the local part is a dot-atom, and the domain is made of non-empty       *)
(* labels of letters, digits and inner hyphens.                            *)
(***************************************************************************)
DotAtomOK(s) ==
    /\ s # <<>>
    /\ s[1] # "."
    /\ s[Len(s)] # "."
    /\ ~Contains(s, <<".", ".">>)
DomainLabelOK(l) ==
    /\ l # <<>>
    /\ AllIn(l, 1, Len(l) + 1, UpperSet \cup LowerSet \cup Digits \cup {"-"})
    /\ l[1] # "-"
    /\ l[Len(l)] # "-"
EmailStrAccepts(e) ==
    LET a == Find(e, <<"@">>, 1)
        labels == Split(SubSeq(e, a + 1, Len(e)), <<".">>)
    IN  /\ a # 0
        /\ DotAtomOK(SubSeq(e, 1, a - 1))
        /\ Len(labels) >= 2
        /\ \A k \in 1..Len(labels) : DomainLabelOK(labels[k])

(***************************************************************************)
(* RuleBasedParser._extract_personal_info                                  *)
(***************************************************************************)
\* text[:500]
HeaderWindow == 500
\* len(line) < 100
NameMaxLen == 100
NameStopWords ==
    <<<<"r", "e", "s", "u", "m", "e">>,
      <<"c", "v">>,
      <<"c", "u", "r", "r", "i", "c", "u", "l", "u", "m">>>>

\* lines 123-126: the line can be the name
IsContactLine(line) ==
    \/ EmailSearch(line)
    \/ PhoneSearch(line)
    \/ PrefixRunSearch(line, LinkedinPrefix)
    \/ PrefixRunSearch(line, GithubPrefix)
IsNameLine(line) ==
    /\ line # <<>>
    /\ ~IsContactLine(line)
    /\ Len(line) < NameMaxLen
    /\ \A k \in 1..Len(NameStopWords) :
          ~StartsWithAt(str_lower(line), 1, NameStopWords[k])
\* lines 120-128: the first line that can be the name, None when none can
RECURSIVE FirstNameLine(_)
FirstNameLine(lines) ==
    IF lines = <<>> THEN <<>>
    ELSE IF IsNameLine(Strip(Head(lines))) THEN <<Strip(Head(lines))>>
    ELSE FirstNameLine(Tail(lines))

\* the arguments PersonalInfo(...) is built from
PersonalInfoFields(txt, secs) ==
    LET header_text == DictGet(secs, "header")
        full_text == header_text \o <<NL>>
                         \o SubSeq(txt, 1, Min(Len(txt), HeaderWindow))
        linkedin == PrefixRunFirst(full_text, LinkedinPrefix)
        github == PrefixRunFirst(full_text, GithubPrefix)
    IN  [full_name |-> FirstNameLine(Split(full_text, <<NL>>)),
         email |-> EmailFirst(full_text),
         phone |-> PhoneFirst(full_text),
         linkedin |-> IF linkedin = <<>> THEN <<>>
                      ELSE <<HttpsPrefix \o linkedin[1]>>,
         github |-> IF github = <<>> THEN <<>>
                    ELSE <<HttpsPrefix \o github[1]>>]
\* PersonalInfo(...) raises a ValidationError when the email is not None and
\* EmailStr rejects it
PersonalInfoRaises(f) == f.email # <<>> /\ ~EmailStrAccepts(f.email[1])

(***************************************************************************)
(* re.findall, re.sub and re.split for the patterns of the extractors.     *)
(* ends[i] is the end (exclusive) of the match the pattern has at i, or 0. *)
(***************************************************************************)
\* the non-overlapping matches from i on, leftmost first, as <<start, end>>
RECURSIVE Scan(_, _)
Scan(ends, i) ==
    IF i > Len(ends) THEN <<>>
    ELSE IF ends[i] # 0 THEN <<<<i, ends[i]>>>> \o Scan(ends, ends[i])
    ELSE Scan(ends, i + 1)
\* re.findall: the text of each match
Findall(s, ends) ==
    LET spans == Scan(ends, 1)
    IN  [k \in 1..Len(spans) |-> SubSeq(s, spans[k][1], spans[k][2] - 1)]
\* re.sub(pattern, '', s)
RECURSIVE RemoveSpans(_, _, _)
RemoveSpans(s, spans, from) ==
    IF spans = <<>> THEN SubSeq(s, from, Len(s))
    ELSE SubSeq(s, from, Head(spans)[1] - 1)
             \o RemoveSpans(s, Tail(spans), Head(spans)[2])
\* re.split on one character of the class C
RECURSIVE SplitOnChars(_, _)
SplitOnChars(s, C) ==
    LET hits == {i \in 1..Len(s) : s[i] \in C}
    IN  IF hits = {} THEN <<s>>
        ELSE LET i == CHOOSE x \in hits : \A y \in hits : x <= y
             IN  <<SubSeq(s, 1, i - 1)>>
                     \o SplitOnChars(SubSeq(s, i + 1, Len(s)), C)
\* any(keyword in s for keyword in keywords)
ContainsAny(s, keywords) ==
    \E k \in 1..Len(keywords) : Contains(s, keywords[k])
\* [x.strip() for x in seq]
StripEach(seq) == [k \in 1..Len(seq) |-> Strip(seq[k])]

\* \d{4}
Year4Ends(s) ==
    [i \in 1..Len(s) |-> IF NDigits(s, {i}, 4) # {} THEN i + 4 ELSE 0]
\* \d{4}|\d{1,2}/\d{4}
MonthYearEndAt(s, i) ==
    LET slash(n) == NDigits(s, {i}, n) # {} /\ CharAt(s, i + n) = "/"
                        /\ NDigits(s, {i + n + 1}, 4) # {}
    IN  IF NDigits(s, {i}, 4) # {} THEN i + 4
        ELSE IF slash(2) THEN i + 7
        ELSE IF slash(1) THEN i + 6
        ELSE 0
CertDateEnds(s) == [i \in 1..Len(s) |-> MonthYearEndAt(s, i)]
\* (\d{4}|\d{1,2}/\d{4}|\w+\s+\d{4})
Whitespace == {" ", "\t", "\n", "\r"}
ExperienceDateEnds(s) ==
    [i \in 1..Len(s) |->
        IF MonthYearEndAt(s, i) # 0 THEN MonthYearEndAt(s, i)
        ELSE LET w == RunEnd(s, i, WordChars)
                 t == RunEnd(s, w, Whitespace)
             IN  IF w > i /\ t > w /\ NDigits(s, {t}, 4) # {} THEN t + 4
                 ELSE 0]

(***************************************************************************)
(* RuleBasedParser._extract_summary                                        *)
(***************************************************************************)
_extract_summary(secs) ==
    IF DictGet(secs, "summary") # <<>>
    THEN <<Strip(DictGet(secs, "summary"))>>
    ELSE <<>>

(***************************************************************************)
(* RuleBasedParser._extract_experience                                     *)
(***************************************************************************)
\* \n(?=[A-Z][^a-z\n]*[A-Z]) matches the newline at k
IsEntryBreak(s, k) ==
    /\ s[k] = NL
    /\ CharAt(s, k + 1) \in UpperSet
    /\ \E j \in (k + 2)..Len(s) :
          /\ s[j] \in UpperSet
          /\ \A m \in (k + 2)..(j - 1) : s[m] \notin LowerSet \cup {NL}
\* re.split at the entry breaks
RECURSIVE ExperienceEntries(_)
ExperienceEntries(s) ==
    LET breaks == {k \in 1..Len(s) : IsEntryBreak(s, k)}
    IN  IF breaks = {} THEN <<s>>
        ELSE LET k == CHOOSE x \in breaks : \A y \in breaks : x <= y
             IN  <<SubSeq(s, 1, k - 1)>>
                     \o ExperienceEntries(SubSeq(s, k + 1, Len(s)))
PresentWord == <<"p", "r", "e", "s", "e", "n", "t">>
CurrentWord == <<"c", "u", "r", "r", "e", "n", "t">>
\* lines 178-187: company and position from the first line of the entry
FirstLineHeuristic_positionFirst(first_line) ==
    IF Contains(first_line, <<"|">>)
    THEN [company |-> <<Strip(Split(first_line, <<"|">>)[2])>>,
          position |-> <<Strip(Split(first_line, <<"|">>)[1])>>]
    ELSE IF Contains(first_line, <<",">>)
    THEN [company |-> <<Strip(Split(first_line, <<",">>)[2])>>,
          position |-> <<Strip(Split(first_line, <<",">>)[1])>>]
    ELSE [company |-> <<>>, position |-> <<first_line>>]
FirstLineHeuristic(first_line) ==
    IF Contains(first_line, <<"|">>)
    THEN [company |-> <<Strip(Split(first_line, <<"|">>)[1])>>,
          position |-> <<Strip(Split(first_line, <<"|">>)[2])>>]
    ELSE IF Contains(first_line, <<",">>)
    THEN [company |-> <<Strip(Split(first_line, <<",">>)[2])>>,
          position |-> <<Strip(Split(first_line, <<",">>)[1])>>]
    ELSE [company |-> <<>>, position |-> <<first_line>>]
\* lines 159-198: the Experience of one entry with at least two lines
ExperienceOf(entry) ==
    LET lines == StrippedNonBlank(Split(entry, <<NL>>))
        dates == Findall(entry, ExperienceDateEnds(entry))
        who == FirstLineHeuristic(lines[1])
    IN  [company |-> who.company,
         position |-> who.position,
         start_date |-> IF Len(dates) > 0 THEN <<dates[1]>> ELSE <<>>,
         end_date |-> IF Len(dates) > 1 THEN <<dates[2]>> ELSE <<>>,
         is_current |-> \/ Contains(str_lower(entry), PresentWord)
                        \/ Contains(str_lower(entry), CurrentWord),
         description |-> Join(Tail(lines), <<NL>>)]
\* lines 155-198: the loop over the entries
RECURSIVE ExperienceLoop(_)
ExperienceLoop_keepSingle(entries) ==
    IF entries = <<>> THEN <<>>
    ELSE IF Len(StrippedNonBlank(Split(Head(entries), <<NL>>))) < 1
    THEN ExperienceLoop(Tail(entries))
    ELSE <<ExperienceOf(Head(entries))>> \o ExperienceLoop(Tail(entries))
ExperienceLoop(entries) ==
    IF entries = <<>> THEN <<>>
    ELSE IF Len(StrippedNonBlank(Split(Head(entries), <<NL>>))) < 2
    THEN ExperienceLoop(Tail(entries))
    ELSE <<ExperienceOf(Head(entries))>> \o ExperienceLoop(Tail(entries))
_extract_experience(secs) ==
    IF DictGet(secs, "experience") = <<>> THEN <<>>
    ELSE ExperienceLoop(ExperienceEntries(DictGet(secs, "experience")))

(***************************************************************************)
(* RuleBasedParser._extract_education                                      *)
(***************************************************************************)
InstitutionKeywords ==
    <<<<"u", "n", "i", "v", "e", "r", "s", "i", "t", "y">>,
    <<"c", "o", "l", "l", "e", "g", "e">>,
    <<"i", "n", "s", "t", "i", "t", "u", "t", "e">>,
    <<"s", "c", "h", "o", "o", "l">>>>
DegreeKeywords ==
    <<<<"b", "a", "c", "h", "e", "l", "o", "r">>,
    <<"m", "a", "s", "t", "e", "r">>,
    <<"p", "h", "d">>,
    <<"d", "e", "g", "r", "e", "e">>,
    <<"b", "s">>,
    <<"m", "s">>,
    <<"b", "a">>,
    <<"m", "a">>>>
\* lines 227-236: one turn of the loop over the lines of an entry
EducationStep(e, line) ==
    IF ContainsAny(str_lower(line), InstitutionKeywords)
    THEN [e EXCEPT !.institution = <<line>>]
    ELSE IF ContainsAny(str_lower(line), DegreeKeywords)
    THEN IF Contains(str_lower(line), <<"i", "n">>)
         THEN LET parts == Split(str_lower(line), <<"i", "n">>)
              IN  [e EXCEPT !.degree = <<Strip(parts[1])>>,
                            !.field_of_study = <<Strip(parts[2])>>]
         ELSE [e EXCEPT !.degree = <<line>>]
    ELSE e
RECURSIVE EducationLines(_, _)
EducationLines(e, lines) ==
    IF lines = <<>> THEN e
    ELSE EducationLines(EducationStep(e, Head(lines)), Tail(lines))
\* lines 215-243: the Education of one entry
EducationOf(entry) ==
    LET dates == Findall(entry, Year4Ends(entry))
    IN  EducationLines(
            [institution |-> <<>>, degree |-> <<>>, field_of_study |-> <<>>,
             graduation_date |-> IF dates # <<>> THEN <<dates[Len(dates)]>>
                                 ELSE <<>>],
            StrippedNonBlank(Split(entry, <<NL>>)))
RECURSIVE EducationLoop(_)
EducationLoop(entries) ==
    IF entries = <<>> THEN <<>>
    ELSE IF Strip(Head(entries)) = <<>> THEN EducationLoop(Tail(entries))
    ELSE <<EducationOf(Head(entries))>> \o EducationLoop(Tail(entries))
_extract_education(secs) ==
    IF DictGet(secs, "education") = <<>> THEN <<>>
    ELSE EducationLoop(Split(DictGet(secs, "education"), <<NL, NL>>))

(***************************************************************************)
(* RuleBasedParser._extract_skills                                         *)
(***************************************************************************)
\* [,;\u2022\n]: the documents of the model are ASCII, so the bullet
\* U+2022 never occurs in them
SkillSeparators == {",", ";", NL}
TechnicalSkills == <<"T", "e", "c", "h", "n", "i", "c", "a", "l", " ", "S", "k", "i", "l",
    "l", "s">>
_extract_skills(secs) ==
    IF DictGet(secs, "skills") = <<>> THEN <<>>
    ELSE <<[category |-> TechnicalSkills,
            skills |-> StrippedNonBlank(
                           SplitOnChars(DictGet(secs, "skills"),
                                        SkillSeparators))]>>

(***************************************************************************)
(* RuleBasedParser._extract_certifications                                 *)
(***************************************************************************)
CertificationOf(line) ==
    LET spans == Scan(CertDateEnds(line), 1)
    IN  [name |-> Strip(RemoveSpans(line, spans, 1)),
         date |-> IF spans # <<>>
                  THEN <<SubSeq(line, spans[1][1], spans[1][2] - 1)>>
                  ELSE <<>>]
_extract_certifications(secs) ==
    LET lines == StrippedNonBlank(Split(DictGet(secs, "certifications"), <<NL>>))
    IN  [k \in 1..Len(lines) |-> CertificationOf(lines[k])]

(***************************************************************************)
(* RuleBasedParser._extract_projects                                       *)
(***************************************************************************)
TechnologiePrefix == <<"t", "e", "c", "h", "n", "o", "l", "o", "g", "i", "e">>
\* Technologies?:?\s*([^\n]+) with re.IGNORECASE: the start of the group
\* for a match at i, 0 when there is none.  The optional "s" and ":" and the
\* white space are taken greedily and given back only when the group would
\* otherwise be empty.
TechGroupStartAt(s, i) ==
    LET p == i + Len(TechnologiePrefix)
        q == IF ToLower(CharAt(s, p)) = "s" THEN p + 1 ELSE p
        r == IF CharAt(s, q) = ":" THEN q + 1 ELSE q
        t == RunEnd(s, r, Whitespace)
        back == {g \in r..(t - 1) : s[g] # NL}
    IN  IF ~StartsWithAt(str_lower(s), i, TechnologiePrefix) THEN 0
        ELSE IF t <= Len(s) THEN t
        ELSE IF back # {} THEN CHOOSE g \in back : \A h \in back : h <= g
        ELSE IF r > p THEN r - 1
        ELSE 0
\* tech_match.group(1), as an optional value
TechGroup(s) ==
    LET starts == {i \in 1..Len(s) : TechGroupStartAt(s, i) # 0}
    IN  IF starts = {} THEN <<>>
        ELSE LET i == CHOOSE x \in starts : \A y \in starts : x <= y
                 g == TechGroupStartAt(s, i)
             IN  <<SubSeq(s, g, RunEnd(s, g, {s[k] : k \in 1..Len(s)} \ {NL}) - 1)>>
ProjectOf(entry) ==
    LET lines == StrippedNonBlank(Split(entry, <<NL>>))
        description == Join(Tail(lines), <<NL>>)
        tech == TechGroup(description)
    IN  [name |-> <<lines[1]>>,
         description |-> description,
         technologies |-> IF tech = <<>> THEN <<>>
                          ELSE StripEach(Split(tech[1], <<",">>))]
RECURSIVE ProjectLoop(_)
ProjectLoop(entries) ==
    IF entries = <<>> THEN <<>>
    ELSE IF Strip(Head(entries)) = <<>> THEN ProjectLoop(Tail(entries))
    ELSE <<ProjectOf(Head(entries))>> \o ProjectLoop(Tail(entries))
_extract_projects(secs) ==
    IF DictGet(secs, "projects") = <<>> THEN <<>>
    ELSE ProjectLoop(Split(DictGet(secs, "projects"), <<NL, NL>>))

(***************************************************************************)
(* RuleBasedParser._extract_languages                                      *)
(***************************************************************************)
LanguageOf(line) ==
    IF Contains(line, <<":">>)
    THEN [language |-> <<Strip(Split(line, <<":">>)[1])>>,
          proficiency |-> <<Strip(Split(line, <<":">>)[2])>>]
    ELSE IF Contains(line, <<"(">>)
    THEN [language |-> <<Strip(SplitOnChars(line, {"(", ")"})[1])>>,
          proficiency |-> <<Strip(SplitOnChars(line, {"(", ")"})[2])>>]
    ELSE [language |-> <<line>>, proficiency |-> <<>>]
_extract_languages(secs) ==
    LET lines == StrippedNonBlank(Split(DictGet(secs, "languages"), <<NL>>))
    IN  [k \in 1..Len(lines) |-> LanguageOf(lines[k])]

(***************************************************************************)
(* RuleBasedParser.parse, on the text                                      *)
(***************************************************************************)
\* lines 40-50: what the eight extractors return
ExtractedFields(txt, secs) ==
    [personal_info |-> PersonalInfoFields(txt, secs),
     summary |-> _extract_summary(secs),
     experience |-> _extract_experience(secs),
     education |-> _extract_education(secs),
     skills |-> _extract_skills(secs),
     certifications |-> _extract_certifications(secs),
     projects |-> _extract_projects(secs),
     languages |-> _extract_languages(secs)]
\* truthiness of an optional str: not None and not ''
Truthy(o) == o # <<>> /\ o[1] # <<>>
\* the scored fields of the record that are truthy
Populated(f) ==
    {x \in RuleScoredFields :
        \/ x = "full_name" /\ Truthy(f.personal_info.full_name)
        \/ x = "email" /\ Truthy(f.personal_info.email)
        \/ x = "phone" /\ Truthy(f.personal_info.phone)
        \/ x = "summary" /\ Truthy(f.summary)
        \/ x = "experience" /\ f.experience # <<>>
        \/ x = "education" /\ f.education # <<>>
        \/ x = "skills" /\ f.skills # <<>>
        \/ x = "certifications" /\ f.certifications # <<>>
        \/ x = "projects" /\ f.projects # <<>>}
\* the whole call from the sections dict `secs` of line 38: it raises the
\* ValidationError of PersonalInfo, or returns the record and its confidence
ParseFromSections(txt, secs) ==
    LET f == ExtractedFields(txt, secs)
        r == RuleBasedParser_parse(Populated(f))
    IN  IF PersonalInfoRaises(f.personal_info)
        THEN [raised |-> TRUE, fields |-> <<>>, record |-> <<>>,
              confidence |-> <<>>]
        ELSE [raised |-> FALSE, fields |-> <<f>>, record |-> <<r.record>>,
              confidence |-> <<r.confidence>>]

(***************************************************************************)
(* The tuples of variables, the initial state.                             *)
(***************************************************************************)
controller_vars ==
    <<openai_client, anthropic_client, pc, file, use_llm_fallback,
      llm_provider, text, parsed_resume, confidence, llm_resume,
      llm_confidence, response, rule_calls, llm_calls, openai_calls,
      anthropic_calls, rule_returned, llm_outcome>>
rp_vars == <<rp_calls, rp_text, rp_sections, rp_result, rp_first>>
seg_vars == <<seg_pc, seg_text, seg_lines, seg_locals>>
car_vars == <<car_pc, car_provider, car_content, car_result>>
val_vars == <<val_pc, val_payload, val_result>>
conc_vars == <<req, loop_owner, rule_parser_last>>
vars == <<controller_vars, rp_vars, seg_vars, car_vars, val_vars, conc_vars>>

NoFile == [filename |-> <<>>, size |-> 0]
\* how llm_parser.parse ended: kind is "none" (not called), "raised" or
\* "returned"; cause is "unavailable" or the kind of the provider's response;
\* valid and score describe the payload and the record of a returned pair
NoOutcome == [kind |-> "none", cause |-> "", valid |-> FALSE, score |-> 0]

\* no parse of a document has been made on the instance
RuleParserIdle ==
    /\ rp_calls = 0
    /\ rp_text = <<>>
    /\ rp_sections = EmptyDict
    /\ rp_result = <<>>
    /\ rp_first = EmptyDict
\* no call of _split_into_sections is in progress
SegmenterIdle ==
    /\ seg_pc = "idle"
    /\ seg_text = <<>>
    /\ seg_lines = <<>>
    /\ seg_locals = [sections |-> EmptyDict, current_section |-> "header",
                     current_content |-> <<>>]
\* no response of a provider is being decoded
DecoderIdle ==
    /\ car_pc = "idle"
    /\ car_provider = ""
    /\ car_content = <<>>
    /\ car_result = <<>>
ValidatorIdle ==
    /\ val_pc = "idle"
    /\ val_payload = [top |-> "null",
                      parts |-> [k \in {} |-> "absent"], extra |-> FALSE]
    /\ val_result = <<>>

\* the calls of parse_resume_sync that may be in flight together
ReqIds == {1, 2}
\* what a request has been given so far by the extractor, the field
\* extractors and the provider
NothingSeen == [text |-> <<>>, fields |-> <<>>, resp |-> <<>>]
\* a call of parse_resume_sync that has not begun
NoRequest ==
    [pc |-> "idle", file_type |-> "", use_llm_fallback |-> FALSE,
     llm_provider |-> "", text |-> <<>>, parsed_resume |-> <<>>,
     confidence |-> <<>>, response |-> <<>>, seen |-> NothingSeen]

ConcurrencyIdle ==
    /\ req = [r \in ReqIds |-> NoRequest]
    /\ loop_owner = 0
    /\ rule_parser_last = <<>>

ControllerInit ==
    /\ openai_client \in BOOLEAN
    /\ anthropic_client \in BOOLEAN
    /\ pc = "idle"
    /\ file = NoFile
    /\ use_llm_fallback = TRUE
    /\ llm_provider = "openai"
    /\ text = <<>>
    /\ parsed_resume = <<>>
    /\ confidence = <<>>
    /\ llm_resume = <<>>
    /\ llm_confidence = <<>>
    /\ response = <<>>
    /\ rule_calls = 0
    /\ llm_calls = 0
    /\ openai_calls = 0
    /\ anthropic_calls = 0
    /\ rule_returned = <<>>
    /\ llm_outcome = NoOutcome

Init ==
    /\ ControllerInit
    /\ RuleParserIdle
    /\ SegmenterIdle
    /\ DecoderIdle
    /\ ValidatorIdle
    /\ ConcurrencyIdle

clients == <<openai_client, anthropic_client>>
params == <<file, use_llm_fallback, llm_provider>>
locals == <<text, parsed_resume, confidence, llm_resume, llm_confidence>>
history ==
    <<rule_calls, llm_calls, openai_calls, anthropic_calls, rule_returned,
      llm_outcome>>

\* the function returns or raises: r goes to the caller
Return(r) ==
    /\ response' = <<r>>
    /\ pc' = "done"

(***************************************************************************)
(* parse_resume_sync, lines 205-220: the request arrives and the upload    *)
(* is validated.                                                           *)
(***************************************************************************)
ReceiveRequest ==
    /\ pc = "idle"
    /\ \E f \in Files, fb \in BOOLEAN, prov \in Providers :
        /\ file' = f
        /\ use_llm_fallback' = fb
        /\ llm_provider' = prov
        /\ IF f.filename = <<>>
           THEN Return(HTTPError(400, "No file provided"))
           ELSE IF file_extension(f.filename) \notin SUPPORTED_FORMATS
           THEN Return(HTTPError(400, "Unsupported file format"))
           ELSE IF f.size > MAX_FILE_SIZE
           THEN Return(HTTPError(413, "File too large"))
           ELSE pc' = "extract" /\ UNCHANGED response
    /\ UNCHANGED <<clients, locals, history>>
    /\ UNCHANGED <<rp_vars, seg_vars, car_vars, val_vars, conc_vars>>

(***************************************************************************)
(* lines 222-224: await text_extractor.extract_text(...).  It returns a    *)
(* text or raises "Text extraction failed", which the handler's last       *)
(* except clause turns into ParseResponse(success=False).                  *)
(***************************************************************************)
ExtractText ==
    /\ pc = "extract"
    /\ \/ /\ Return(ParseResponse(FALSE, <<>>, "Processing failed"))
          /\ UNCHANGED text
       \/ \E t \in Texts :
            /\ text' = <<t>>
            /\ pc' = "extracted"
            /\ UNCHANGED response
    /\ UNCHANGED <<clients, params, parsed_resume, confidence, llm_resume,
                   llm_confidence, history>>
    /\ UNCHANGED <<rp_vars, seg_vars, car_vars, val_vars, conc_vars>>

(***************************************************************************)
(* lines 226-231: the no-text check, rule_parser.parse(text) and the       *)
(* escalation test.  The field extractors find the fields p; building      *)
(* PersonalInfo may raise a ValidationError (EmailStr), which ends the     *)
(* request with ParseResponse(success=False).                              *)
(***************************************************************************)
RuleParse ==
    /\ pc = "extracted"
    /\ IF NoText(text[1])
       THEN /\ Return(HTTPError(400, "No text could be extracted from file"))
            /\ UNCHANGED <<parsed_resume, confidence, rule_calls,
                           rule_returned>>
       ELSE /\ rule_calls' = rule_calls + 1
            /\ \/ /\ Return(ParseResponse(FALSE, <<>>, "Processing failed"))
                  /\ UNCHANGED <<parsed_resume, confidence, rule_returned>>
               \/ \E p \in SUBSET RuleScoredFields :
                    LET r == RuleBasedParser_parse(p) IN
                    /\ parsed_resume' = <<r.record>>
                    /\ confidence' = <<r.confidence>>
                    /\ rule_returned' = <<r.record>>
                    /\ pc' = IF ShouldEscalate(r.confidence, use_llm_fallback)
                             THEN "escalating" ELSE "merged"
                    /\ UNCHANGED response
    /\ UNCHANGED <<clients, params, text, llm_resume, llm_confidence,
                   llm_calls, openai_calls, anthropic_calls, llm_outcome>>
    /\ UNCHANGED <<rp_vars, seg_vars, car_vars, val_vars, conc_vars>>

(***************************************************************************)
(* line 233 into LLMParser.parse (lines 21-32): the provider is chosen.    *)
(* With no client for it, ValueError is raised, wrapped as "LLM parsing    *)
(* failed" and caught at line 236.                                         *)
(***************************************************************************)
LLMParse ==
    /\ pc = "escalating"
    /\ llm_calls' = llm_calls + 1
    /\ LET client == LLMParser_parse(llm_provider, openai_client,
                                     anthropic_client) IN
       IF client = ""
       THEN /\ llm_outcome' = [NoOutcome EXCEPT !.kind = "raised",
                                                 !.cause = "unavailable"]
            /\ IF LLMFailureSwallowed
               THEN pc' = AfterLLMFailure /\ UNCHANGED response
               ELSE Return(ParseResponse(FALSE, <<>>, "Processing failed"))
            /\ UNCHANGED <<openai_calls, anthropic_calls>>
       ELSE /\ pc' = "awaiting"
            /\ openai_calls' = openai_calls + (IF client = "openai" THEN 1 ELSE 0)
            /\ anthropic_calls' =
                   anthropic_calls + (IF client = "anthropic" THEN 1 ELSE 0)
            /\ UNCHANGED <<llm_outcome, response>>
    /\ UNCHANGED <<clients, params, locals, rule_calls, rule_returned>>
    /\ UNCHANGED <<rp_vars, seg_vars, car_vars, val_vars, conc_vars>>

\* the client whose create() call is pending
PendingClient == IF openai_calls > 0 THEN "openai" ELSE "anthropic"

(***************************************************************************)
(* The provider's call completes (llm_parser.py lines 39-61, 68-92) and    *)
(* control returns to lines 233-237: a failure is caught, a returned pair  *)
(* goes through the merge.                                                 *)
(***************************************************************************)
ProviderResponds ==
    /\ pc = "awaiting"
    /\ \E resp \in ProviderResponses :
        LET r == _parse_with_provider(PendingClient, resp) IN
        IF r.raised
        THEN /\ llm_outcome' = [NoOutcome EXCEPT !.kind = "raised",
                                                  !.cause = resp.kind]
             /\ IF LLMFailureSwallowed
                THEN pc' = AfterLLMFailure /\ UNCHANGED response
                ELSE Return(ParseResponse(FALSE, <<>>, "Processing failed"))
             /\ UNCHANGED <<parsed_resume, llm_resume, llm_confidence>>
        ELSE /\ llm_outcome' = [kind |-> "returned", cause |-> resp.kind,
                                valid |-> resp.valid,
                                score |-> LLMScore(r.record.populated)]
             /\ llm_resume' = <<r.record>>
             /\ llm_confidence' = <<r.confidence>>
             /\ parsed_resume' =
                    <<Merge(parsed_resume[1], confidence[1], r.record,
                            r.confidence)>>
             /\ pc' = "merged"
             /\ UNCHANGED response
    /\ UNCHANGED <<clients, params, text, confidence, rule_calls, llm_calls,
                   openai_calls, anthropic_calls, rule_returned>>
    /\ UNCHANGED <<rp_vars, seg_vars, car_vars, val_vars, conc_vars>>

(***************************************************************************)
(* lines 239-241: processing_time is set and the record is returned.  The  *)
(* locals end with the call.                                               *)
(***************************************************************************)
Respond ==
    /\ pc = "merged"
    /\ \E elapsed \in 0..MaxElapsed :
        Return(ParseResponse(TRUE,
            <<[parsed_resume[1] EXCEPT !.processing_time = elapsed]>>, ""))
    /\ text' = <<>>
    /\ parsed_resume' = <<>>
    /\ confidence' = <<>>
    /\ llm_resume' = <<>>
    /\ llm_confidence' = <<>>
    /\ UNCHANGED <<clients, params, history>>
    /\ UNCHANGED <<rp_vars, seg_vars, car_vars, val_vars, conc_vars>>

Next ==
    \/ ReceiveRequest
    \/ ExtractText
    \/ RuleParse
    \/ LLMParse
    \/ ProviderResponds
    \/ Respond

Spec == Init /\ [][Next]_vars

(***************************************************************************)
(* rule_parser.parse on the text of a document.  routes.py calls it at     *)
(* line 229 on the module-level instance of line 193, after the no-text    *)
(* check of line 226, so every text it is given has a non-blank character. *)
(***************************************************************************)
ScenarioA ==
    <<"J", "o", "h", "n", " ", "S", "m", "i", "t", "h", "\n", "j", "o",
      "h", "n", "@", "x", ".", "c", "o", "m", "\n", "5", "5", "5", "-", "1",
      "2", "3", "-", "4", "5", "6", "7", "\n", "E", "x", "p", "e", "r", "i",
      "e", "n", "c", "e", "\n", "S", "e", "n", "i", "o", "r", " ", "D", "e",
      "v", " ", "|", " ", "A", "c", "m", "e", " ", "C", "o", "r", "p", "\n",
      "2", "0", "1", "9", " ", "-", " ", "P", "r", "e", "s", "e", "n", "t",
      "\n", "B", "u", "i", "l", "t", " ", "t", "h", "i", "n", "g", "s",
      ".">>
DocNoHeader ==
    <<"J", "a", "n", "e", " ", "D", "o", "e", "\n", "j", "a", "n", "e",
      "@", "b", ".", "c", "o", "\n", "+", "1", " ", "5", "5", "5", "-", "1",
      "2", "3", "-", "4", "5", "6", "7">>
DocBadEmail ==
    <<"J", "a", "n", "e", " ", "D", "o", "e", "\n", "j", "a", "n", "e",
      "@", "x", ".", ".", "c", "o", "m", "\n", "S", "k", "i", "l", "l", "s",
      "\n", "G", "o", ",", " ", "C">>
DocSkills ==
    <<"S", "k", "i", "l", "l", "s", "\n", "G", "o", "\n", "\n", "S", "k",
      "i", "l", "l", "s">>
DocSummary ==
    <<"J", "a", "n", "e", " ", "D", "o", "e", "\n", "S", "u", "m", "m",
      "a", "r", "y", "\n", "E", "n", "g", "i", "n", "e", "e", "r", ".", "\n",
      "E", "d", "u", "c", "a", "t", "i", "o", "n", "\n", "M", "I", "T", " ",
      "U", "n", "i", "v", "e", "r", "s", "i", "t", "y", " ", "2", "0", "1",
      "0">>
DocComma ==
    <<"E", "x", "p", "e", "r", "i", "e", "n", "c", "e", "\n", "D", "e",
      "v", ",", " ", "C", "o", "\n", "2", "0", "2", "0", "\n", "P", "r", "o",
      "j", "e", "c", "t", "s", "\n", "T", "o", "o", "l", "\n", "A", " ", "t",
      "h", "i", "n", "g">>
DocOneLine ==
    <<"E", "x", "p", "e", "r", "i", "e", "n", "c", "e", "\n", "D", "e",
      "v", " ", "a", "t", " ", "C", "o", "\n", "C", "e", "r", "t", "i", "f",
      "i", "c", "a", "t", "i", "o", "n", "s", "\n", "A", "W", "S", " ", "2",
      "0", "2", "0", "\n", "L", "a", "n", "g", "u", "a", "g", "e", "s", "\n",
      "H", "i", "n", "d", "i", " ", "(", "n", "a", "t", "i", "v", "e", ")">>
DocTwoSchools ==
    <<"E", "d", "u", "c", "a", "t", "i", "o", "n", "\n", "M", "I", "T",
      " ", "U", "n", "i", "v", "e", "r", "s", "i", "t", "y", " ", "2", "0",
      "1", "0", "\n", "\n", "S", "t", "a", "n", "f", "o", "r", "d", " ", "C",
      "o", "l", "l", "e", "g", "e", " ", "2", "0", "1", "4">>
DocTwoJobs ==
    <<"E", "x", "p", "e", "r", "i", "e", "n", "c", "e", "\n", "L", "e",
      "a", "d", ",", " ", "E", "n", "g", " ", "|", " ", "B", "i", "g", " ",
      "C", "o", "\n", "2", "0", "2", "0", " ", "-", " ", "2", "0", "2", "1",
      "\n", "I", "B", "M", "\n", "r", "a", "n", " ", "o", "p", "s", "\n",
      "A", "C", "M", "E">>
Docs ==
    {ScenarioA, DocNoHeader, DocBadEmail, DocSkills,
     DocSummary, DocComma, DocOneLine, DocTwoSchools, DocTwoJobs}

\* line 38, for each document
SectionsOf == [t \in Docs |-> _split_into_sections(t)]
\* lines 40-55, for each document and the sections dict of line 38
OutcomeOf == [t \in Docs |-> ParseFromSections(t, SectionsOf[t])]

\* lines 36-55, the whole call: the segmenter, the eight extractors, the
\* scorer.  The call returns the record and its confidence, or raises.
Parse ==
    /\ rp_calls < MaxCalls
    /\ \E t \in Docs :
        /\ rp_text' = <<t>>
        /\ rp_sections' = SectionsOf[t]
        /\ rp_result' = <<OutcomeOf[t]>>
        /\ rp_first' = IF t \in DOMAIN rp_first THEN rp_first
                       ELSE DictPut(rp_first, t, rp_result'[1])
    /\ rp_calls' = rp_calls + 1
    /\ UNCHANGED <<controller_vars, seg_vars, car_vars, val_vars, conc_vars>>

RuleNext == Parse

RuleSpec == Init /\ [][RuleNext]_vars

(***************************************************************************)
(* _split_into_sections, one line of the text at a time.                   *)
(***************************************************************************)
DocLines ==
    {<<"S", "k", "i", "l", "l", "s">>,
     <<"E", "d", "u", "c", "a", "t", "i", "o", "n">>,
     <<"G", "o">>,
     <<" ", "C", " ">>,
     <<>>}
\* the texts of one to MaxDocLines lines that have a non-blank character
SegDocs ==
    {d \in {Join(q, <<NL>>) :
               q \in UNION {[1..n -> DocLines] : n \in 1..MaxDocLines}} :
        Strip(d) # <<>>}

\* lines 59-62: the call begins
SegInit ==
    /\ ControllerInit
    /\ RuleParserIdle
    /\ DecoderIdle
    /\ ValidatorIdle
    /\ ConcurrencyIdle
    /\ seg_text \in SegDocs
    /\ seg_pc = "loop"
    /\ seg_lines = Split(seg_text, <<NL>>)
    /\ seg_locals = [sections |-> InitialSections,
                     current_section |-> "header",
                     current_content |-> <<>>]

\* lines 64-88: one turn of the loop
SegmentLine ==
    /\ seg_pc = "loop"
    /\ seg_lines # <<>>
    /\ seg_locals' = SegmentStep(seg_locals, Head(seg_lines))
    /\ seg_lines' = Tail(seg_lines)
    /\ UNCHANGED <<seg_pc, seg_text, controller_vars, rp_vars, car_vars,
                   val_vars, conc_vars>>

\* lines 90-94: the last section is saved and the dict returned
SegmentReturn ==
    /\ seg_pc = "loop"
    /\ seg_lines = <<>>
    /\ seg_locals' = [seg_locals EXCEPT
                         !.sections = Flush(seg_locals.sections,
                                            seg_locals.current_section,
                                            seg_locals.current_content)]
    /\ seg_pc' = "done"
    /\ UNCHANGED <<seg_text, seg_lines, controller_vars, rp_vars, car_vars,
                   val_vars, conc_vars>>

SegNext ==
    \/ SegmentLine
    \/ SegmentReturn

SegmentSpec == SegInit /\ [][SegNext]_vars

(***************************************************************************)
(* _split_into_sections on texts of two lines that try the header test of  *)
(* lines 70-77: upper case, two sections named on one line, a synonym of   *)
(* each of the seven sections, and lines of 49 and of 50 characters.       *)
(***************************************************************************)
LineUpper ==
    <<"S", "K", "I", "L", "L", "S">>
LinePlain ==
    <<"P", "y", "t", "h", "o", "n">>
LineTwoSections ==
    <<"S", "k", "i", "l", "l", "s", " ", "a", "n", "d", " ", "E", "d", "u",
    "c", "a", "t", "i", "o", "n">>
Line49 ==
    <<"S", "k", "i", "l", "l", "s", " ", "x", "x", "x", "x", "x", "x", "x",
    "x", "x", "x", "x", "x", "x", "x", "x", "x", "x", "x", "x", "x", "x",
    "x", "x", "x", "x", "x", "x", "x", "x", "x", "x", "x", "x", "x", "x",
    "x", "x", "x", "x", "x", "x", "x">>
Line50 ==
    <<"S", "k", "i", "l", "l", "s", " ", "x", "x", "x", "x", "x", "x", "x",
    "x", "x", "x", "x", "x", "x", "x", "x", "x", "x", "x", "x", "x", "x",
    "x", "x", "x", "x", "x", "x", "x", "x", "x", "x", "x", "x", "x", "x",
    "x", "x", "x", "x", "x", "x", "x", "x">>
LineWorkHistory ==
    <<"W", "o", "r", "k", " ", "H", "i", "s", "t", "o", "r", "y">>
LineLicenses ==
    <<"L", "i", "c", "e", "n", "s", "e", "s">>
LinePortfolio ==
    <<"P", "o", "r", "t", "f", "o", "l", "i", "o">>
LineAboutMe ==
    <<"A", "b", "o", "u", "t", " ", "M", "e">>
LineLanguageSkills ==
    <<"L", "a", "n", "g", "u", "a", "g", "e", " ", "S", "k", "i", "l", "l",
    "s">>
LineLanguages ==
    <<"L", "a", "n", "g", "u", "a", "g", "e", "s">>
LineBlank ==
    <<" ", " ">>
HeaderRuleLines ==
    {LineUpper, LinePlain, LineTwoSections, Line49, Line50, LineWorkHistory,
     LineLicenses, LinePortfolio, LineAboutMe, LineLanguageSkills,
     LineLanguages, LineBlank}
HeaderDocs ==
    {d \in {Join(<<a, b>>, <<NL>>) : a, b \in HeaderRuleLines} :
        Strip(d) # <<>>}

\* lines 59-62: the call begins
HeaderInit ==
    /\ ControllerInit
    /\ RuleParserIdle
    /\ DecoderIdle
    /\ ValidatorIdle
    /\ ConcurrencyIdle
    /\ seg_text \in HeaderDocs
    /\ seg_pc = "loop"
    /\ seg_lines = Split(seg_text, <<NL>>)
    /\ seg_locals = [sections |-> InitialSections,
                     current_section |-> "header",
                     current_content |-> <<>>]

HeaderSpec == HeaderInit /\ [][SegNext]_vars

(***************************************************************************)
(* llm_parser.py, the provider's response on its way to json.loads:        *)
(* _parse_with_openai line 50, _parse_with_anthropic lines 76-81.          *)
(***************************************************************************)
\* s[start:stop] of Python, with 0-based and possibly negative indexes
PySlice(s, start, stop) ==
    LET norm(i) == IF i < 0 THEN (IF i + Len(s) < 0 THEN 0 ELSE i + Len(s))
                   ELSE Min(i, Len(s))
    IN  SubSeq(s, norm(start) + 1, norm(stop))
\* the argument of json.loads
json_content_firstClose(provider, content) ==
    IF provider = "anthropic"
    THEN PySlice(content, Find(content, <<"{">>, 1) - 1,
                 Find(content, <<"}">>, 1))
    ELSE content
json_content(provider, content) ==
    IF provider = "anthropic"
    THEN PySlice(content, Find(content, <<"{">>, 1) - 1,
                 RFind(content, <<"}">>))
    ELSE content

\* The responses of the model are written with four characters: the two
\* braces, a blank, and "t" for any character of commentary.  Of the JSON
\* grammar these characters spell one value, the empty object, with blanks
\* around and inside it.
ContentChars == {"{", "}", " ", "t"}
Contents == UNION {[1..n -> ContentChars] : n \in 0..MaxContentLen}
\* json.loads(s) returns
IsJSON(s) ==
    LET x == Strip(s)
    IN  /\ Len(x) >= 2
        /\ x[1] = "{"
        /\ x[Len(x)] = "}"
        /\ \A k \in 2..(Len(x) - 1) : x[k] = " "
\* the outcome of the API call as _parse_with_provider sees it
ResponseKind(provider, content) ==
    IF IsJSON(json_content(provider, content)) THEN "json" ELSE "not_json"

\* the provider's response has arrived
CarveInit ==
    /\ ControllerInit
    /\ RuleParserIdle
    /\ SegmenterIdle
    /\ ValidatorIdle
    /\ ConcurrencyIdle
    /\ car_pc = "received"
    /\ car_provider \in {"openai", "anthropic"}
    /\ car_content \in Contents
    /\ car_result = <<>>

\* line 50 / lines 76-81: the text is carved (or not) and given to json.loads
Decode ==
    /\ car_pc = "received"
    /\ car_result' =
           <<[json_content |-> json_content(car_provider, car_content),
              kind |-> ResponseKind(car_provider, car_content)]>>
    /\ car_pc' = "decoded"
    /\ UNCHANGED <<car_provider, car_content, controller_vars, rp_vars,
                   seg_vars, val_vars, conc_vars>>

CarveNext == Decode

CarveSpec == CarveInit /\ [][CarveNext]_vars

(***************************************************************************)
(* llm_parser.py lines 50-51 and 82-83: what json.loads returned goes to   *)
(* _convert_to_pydantic, that is to ParsedResume.model_validate            *)
(* (resume_models.py lines 63-74).  The value is an object or not; an      *)
(* object has, for each of the eight content keys of the model, no such    *)
(* key, null, a value the field's type accepts, or one it rejects (a wrong *)
(* type, or a nested value that fails, such as an email EmailStr rejects); *)
(* it may also have keys the model does not declare.                       *)
(***************************************************************************)
PayloadKeys ==
    {"personal_info", "summary", "experience", "education", "skills",
     "certifications", "projects", "languages"}
PartStates == {"absent", "null", "ok", "bad"}
Payloads ==
    [top : {"object"}, parts : [PayloadKeys -> PartStates], extra : BOOLEAN]
    \cup [top : {"array", "null"}, parts : {[k \in PayloadKeys |-> "absent"]},
          extra : {FALSE}]

\* one field of ParsedResume: a missing key takes the default; None is
\* accepted by summary (Optional[str]) only, personal_info and the six
\* lists are not Optional
PartAccepts_nullable(key, v) == v \in {"absent", "ok", "null"}
PartAccepts(key, v) ==
    \/ v \in {"absent", "ok"}
    \/ v = "null" /\ key = "summary"
\* ParsedResume.model_validate(data) returns (TRUE) or raises (FALSE); the
\* model has no model_config, so keys it does not declare are ignored
ParsedResume_model_validate(payload) ==
    /\ payload.top = "object"
    /\ \A key \in PayloadKeys : PartAccepts(key, payload.parts[key])
\* the fields of the record that the payload gives a value for
FieldsOf(key) ==
    IF key = "personal_info" THEN {"full_name", "email", "phone"} ELSE {key}
Carried(payload) ==
    UNION {FieldsOf(key) : key \in {k \in PayloadKeys : payload.parts[k] = "ok"}}
\* the payload as _convert_to_pydantic sees it
PayloadData(payload) ==
    [kind |-> "json", valid |-> ParsedResume_model_validate(payload),
     populated |-> Carried(payload)]

\* lines 50, 82: json.loads has returned
ValidateInit ==
    /\ ControllerInit
    /\ RuleParserIdle
    /\ SegmenterIdle
    /\ DecoderIdle
    /\ ConcurrencyIdle
    /\ val_pc = "loaded"
    /\ val_payload \in Payloads
    /\ val_result = <<>>

\* lines 51, 83 into lines 180-186
Convert ==
    /\ val_pc = "loaded"
    /\ val_result' = <<_convert_to_pydantic(PayloadData(val_payload))>>
    /\ val_pc' = "converted"
    /\ UNCHANGED <<val_payload, controller_vars, rp_vars, seg_vars, car_vars,
                   conc_vars>>

ValidateNext == Convert

ValidateSpec == ValidateInit /\ [][ValidateNext]_vars

(***************************************************************************)
(* Several requests in flight.  parse_resume_sync is a coroutine: each     *)
(* call has its own parameters and locals, all calls go through the        *)
(* module-level text_extractor, rule_parser and llm_parser of routes.py    *)
(* lines 191-194, and all run on the one thread of the event loop.  A      *)
(* coroutine runs from where it is resumed to its next suspension (an      *)
(* await of something that is not ready: file.read(), run_in_executor, the *)
(* provider's HTTP call); meanwhile it holds the loop and no other         *)
(* coroutine runs.  loop_owner is the request that holds the loop, 0 when  *)
(* the loop is free.  The uploads here pass the checks of lines 206-218.   *)
(***************************************************************************)
\* what _detect_file_type returns for a supported upload
FileTypes == {"pdf", "docx", "png", "txt"}
\* the text an extraction yields: none, or some
ConcTexts == {<<>>, <<"a">>}
\* the fields the extractors populate: none (0.0), all but experience
\* (0.80), the six main ones (0.90)
ConcFields ==
    {{}, RuleScoredFields \ {"experience"},
     {"full_name", "email", "phone", "experience", "education", "skills"}}
\* what the provider's call comes to
ConcResponses ==
    {[kind |-> "api_error", valid |-> FALSE, populated |-> {}],
     [kind |-> "json", valid |-> FALSE, populated |-> {}],
     [kind |-> "json", valid |-> TRUE, populated |-> LLMScoredFields]}

ConcInit ==
    /\ ControllerInit
    /\ RuleParserIdle
    /\ SegmenterIdle
    /\ DecoderIdle
    /\ ValidatorIdle
    /\ ConcurrencyIdle

\* the coroutine r is resumed, or goes on, and ends this step holding the
\* loop (holds) or suspended or finished (not holds)
Resumable(r) == loop_owner = 0
Running(r) == loop_owner = r
Step(r, rec, holds) ==
    /\ req' = [req EXCEPT ![r] = rec]
    /\ loop_owner' = IF holds THEN r ELSE 0
\* the call returns or raises: the caller gets resp, the locals end
Finish(r, resp) ==
    Step(r, [req[r] EXCEPT !.pc = "done", !.response = <<resp>>,
                           !.text = <<>>, !.parsed_resume = <<>>,
                           !.confidence = <<>>], FALSE)

\* lines 196-216: the call begins and awaits file.read()
ReqArrive(r) ==
    /\ Resumable(r)
    /\ req[r].pc = "idle"
    /\ \E ft \in FileTypes, fb \in BOOLEAN, prov \in Providers :
        Step(r, [req[r] EXCEPT !.pc = "read", !.file_type = ft,
                               !.use_llm_fallback = fb,
                               !.llm_provider = prov], FALSE)
    /\ UNCHANGED rule_parser_last

\* routes.py lines 216-222 into text_extractor.py lines 16-30: the bytes
\* are there; extract_text dispatches on the file type.  fitz.open and
\* docx.Document are plain calls made by the coroutine itself; the OCR of
\* an image is handed to the executor (lines 128-130) and awaited; a text
\* file is decoded at once.
ReqStartExtract(r) ==
    /\ Resumable(r)
    /\ req[r].pc = "read"
    /\ \/ /\ req[r].file_type = "pdf"
          /\ Step(r, [req[r] EXCEPT !.pc = "pdf_text"], TRUE)
       \/ /\ req[r].file_type = "docx"
          /\ Step(r, [req[r] EXCEPT !.pc = "docx"], TRUE)
       \/ /\ req[r].file_type = "png"
          /\ Step(r, [req[r] EXCEPT !.pc = "ocr"], FALSE)
       \/ /\ req[r].file_type = "txt"
          /\ \E t \in ConcTexts :
                Step(r, [req[r] EXCEPT !.pc = "extracted", !.text = <<t>>,
                                       !.seen.text = <<t>>], TRUE)
    /\ UNCHANGED rule_parser_last

\* text_extractor.py lines 59-79: the text layer has been read, page by
\* page; with enough text it is returned, otherwise (or on an exception)
\* _extract_from_pdf_ocr is entered: fitz.open, get_pixmap, tobytes
ReqPdfText(r) ==
    /\ Running(r)
    /\ req[r].pc = "pdf_text"
    /\ \/ Step(r, [req[r] EXCEPT !.pc = "extracted", !.text = << <<"a">> >>,
                                 !.seen.text = << <<"a">> >>], TRUE)
       \/ Step(r, [req[r] EXCEPT !.pc = "render"], TRUE)
    /\ UNCHANGED rule_parser_last

\* lines 84-95: the page has been rendered; _run_ocr is handed to the
\* executor and awaited.  An exception here ends extract_text with "Text
\* extraction failed", which routes.py lines 245-249 turn into a response.
ReqRender(r) ==
    /\ Running(r)
    /\ req[r].pc = "render"
    /\ \/ Step(r, [req[r] EXCEPT !.pc = "ocr"], FALSE)
       \/ Finish(r, ParseResponse(FALSE, <<>>, "Processing failed"))
    /\ UNCHANGED rule_parser_last

\* lines 93-99, 128-131: _run_ocr has returned in its thread (lines
\* 136-154: a text, or the text "OCR failed: ..."), the coroutine is resumed
\* and extract_text returns the stripped text
ReqOcrDone(r) ==
    /\ Resumable(r)
    /\ req[r].pc = "ocr"
    /\ \E t \in ConcTexts :
          Step(r, [req[r] EXCEPT !.pc = "extracted", !.text = <<t>>,
                                 !.seen.text = <<t>>], TRUE)
    /\ UNCHANGED rule_parser_last

\* lines 104-122: python-docx, then mammoth, have read the document
ReqDocx(r) ==
    /\ Running(r)
    /\ req[r].pc = "docx"
    /\ \/ \E t \in ConcTexts :
            Step(r, [req[r] EXCEPT !.pc = "extracted", !.text = <<t>>,
                                   !.seen.text = <<t>>], TRUE)
       \/ Finish(r, ParseResponse(FALSE, <<>>, "Processing failed"))
    /\ UNCHANGED rule_parser_last

\* routes.py lines 226-231: the no-text check, rule_parser.parse(text) on
\* the shared instance, the escalation test
ReqRuleParse(r) ==
    /\ Running(r)
    /\ req[r].pc = "extracted"
    /\ IF NoText(req[r].text[1])
       THEN /\ Finish(r, HTTPError(400, "No text could be extracted from file"))
            /\ UNCHANGED rule_parser_last
       ELSE \/ /\ Finish(r, ParseResponse(FALSE, <<>>, "Processing failed"))
               /\ UNCHANGED rule_parser_last
            \/ \E p \in ConcFields :
                 LET out == RuleBasedParser_parse(p) IN
                 /\ Step(r, [req[r] EXCEPT
                               !.pc = IF ShouldEscalate(out.confidence,
                                                        req[r].use_llm_fallback)
                                      THEN "escalating" ELSE "merged",
                               !.parsed_resume = <<out.record>>,
                               !.confidence = <<out.confidence>>,
                               !.seen.fields = <<p>>], TRUE)
                 /\ rule_parser_last' = <<out>>

\* line 233 into llm_parser.py lines 21-32: with a client the HTTP call is
\* made and awaited; with none the ValueError is caught at line 236
ReqLLMParse(r) ==
    /\ Running(r)
    /\ req[r].pc = "escalating"
    /\ IF LLMParser_parse(req[r].llm_provider, openai_client,
                          anthropic_client) = ""
       THEN Step(r, [req[r] EXCEPT !.pc = AfterLLMFailure], TRUE)
       ELSE Step(r, [req[r] EXCEPT !.pc = "awaiting"], FALSE)
    /\ UNCHANGED rule_parser_last

\* the rule-based record and confidence that the merge of request r reads:
\* the coroutine's own locals parsed_resume and confidence
RuleResultOf_shared(r) ==
    [record |-> rule_parser_last[1].record,
     confidence |-> rule_parser_last[1].confidence]
RuleResultOf(r) ==
    [record |-> req[r].parsed_resume[1], confidence |-> req[r].confidence[1]]

\* llm_parser.py lines 39-61, 68-92 and routes.py lines 233-237: the
\* provider's call completes, the coroutine is resumed; a failure is caught,
\* a returned pair goes through the merge
ReqProviderResponds(r) ==
    /\ Resumable(r)
    /\ req[r].pc = "awaiting"
    /\ \E resp \in ConcResponses :
        LET out == _parse_with_provider(
                       LLMParser_parse(req[r].llm_provider, openai_client,
                                       anthropic_client), resp)
            mine == RuleResultOf(r)
        IN  Step(r, [req[r] EXCEPT
                       !.pc = "merged",
                       !.parsed_resume =
                           IF out.raised THEN <<mine.record>>
                           ELSE <<Merge(mine.record, mine.confidence,
                                        out.record, out.confidence)>>,
                       !.seen.resp = <<resp>>], TRUE)
    /\ UNCHANGED rule_parser_last

\* routes.py lines 239-241: processing_time is set, the record returned
ReqRespond(r) ==
    /\ Running(r)
    /\ req[r].pc = "merged"
    /\ \E elapsed \in 0..MaxElapsed :
        Finish(r, ParseResponse(TRUE,
            <<[req[r].parsed_resume[1] EXCEPT !.processing_time = elapsed]>>,
            ""))
    /\ UNCHANGED rule_parser_last

\* the next step of the coroutine r
ReqStep(r) ==
    /\ \/ ReqArrive(r)
       \/ ReqStartExtract(r)
       \/ ReqPdfText(r)
       \/ ReqRender(r)
       \/ ReqOcrDone(r)
       \/ ReqDocx(r)
       \/ ReqRuleParse(r)
       \/ ReqLLMParse(r)
       \/ ReqProviderResponds(r)
       \/ ReqRespond(r)
    /\ UNCHANGED <<controller_vars, rp_vars, seg_vars, car_vars, val_vars>>

ConcNext == \E r \in ReqIds : ReqStep(r)

ConcSpec == ConcInit /\ [][ConcNext]_vars

(***************************************************************************)
(* Properties.                                                             *)
(***************************************************************************)
Done == pc = "done"
\* the response the caller received
Resp == response[1]
\* the rule-based confidence of the record rule_parser.parse returned
RuleConf == _calculate_confidence(rule_returned[1].populated).v
\* the record, with processing_time put back to its default
Untimed(r) == [r EXCEPT !.processing_time = 0]
\* the requested provider has no client (no key, or an unknown identifier)
Unavailable ==
    ~ \/ (llm_provider = "openai" /\ openai_client)
      \/ (llm_provider = "anthropic" /\ anthropic_client)
\* a Python float in the closed interval [0, 1]
InUnitInterval(c) == c.t = "float" /\ 0 <= c.v /\ c.v <= 1000

\* C1: llm_parser.parse is invoked iff the rule-based confidence is strictly
\* below 0.85 and use_llm_fallback is set; exactly 0.85 does not escalate.
C1_EscalatesIffBelowThreshold ==
    rule_returned # <<>> =>
        ((llm_calls > 0 \/ pc = "escalating")
            <=> (RuleConf < 850 /\ use_llm_fallback))
C1_Witness ==
    /\ Done
    /\ rule_returned # <<>>
    /\ RuleConf = 850
    /\ use_llm_fallback
    /\ llm_calls = 0
    /\ Resp.success

\* C2: when escalation runs and the adapter returns a record, the final
\* record is the generative one iff the generative confidence (the weighted
\* sum the adapter's scorer accumulates) is strictly greater than the
\* rule-based confidence; otherwise it is the rule-based record.
C2_MergeLaw ==
    (pc = "merged" /\ llm_outcome.kind = "returned") =>
        IF llm_outcome.score > RuleConf
        THEN parsed_resume = llm_resume
        ELSE parsed_resume = rule_returned

\* C3: without escalation (fallback off, or confidence >= 0.85) the final
\* record is the rule-based record as RuleBasedParser.parse returned it
\* (parsing_method "rule_based", confidence_score its confidence), and the
\* controller changes processing_time only.
C3_NoEscalationKeepsRuleRecord ==
    (rule_returned # <<>> /\ (~use_llm_fallback \/ RuleConf >= 850)) =>
        /\ pc \in {"merged", "done"}
        /\ pc = "merged" => parsed_resume = rule_returned
        /\ Done =>
            /\ Resp.success
            /\ Len(Resp.data) = 1
            /\ Untimed(Resp.data[1]) = rule_returned[1]
            /\ Resp.data[1].parsing_method = "rule_based"
            /\ Resp.data[1].confidence_score = PyFloat(RuleConf)
C3_Witness ==
    /\ Done
    /\ rule_returned # <<>>
    /\ use_llm_fallback
    /\ RuleConf >= 850
    /\ Resp.success
    /\ Resp.data[1].processing_time = 1
    /\ Resp.data[1].populated = rule_returned[1].populated

\* C4: a failure of llm_parser.parse during escalation is caught: the
\* request completes with success=true and the rule-based record as data.
C4_LLMFailureIsSwallowed ==
    llm_outcome.kind = "raised" =>
        /\ pc \in {"merged", "done"}
        /\ pc = "merged" => parsed_resume = rule_returned
        /\ Done =>
            /\ Resp.kind = "ParseResponse"
            /\ Resp.success
            /\ Len(Resp.data) = 1
            /\ Untimed(Resp.data[1]) = rule_returned[1]
C4_Witness ==
    /\ Done
    /\ llm_outcome.kind = "raised"
    /\ llm_outcome.cause = "api_error"
    /\ Resp.success
    /\ Untimed(Resp.data[1]) = rule_returned[1]

\* C5: a payload that fails validation makes the adapter return the default
\* empty record with confidence 0, and the merge keeps the rule-based record.
C5_InvalidPayloadScoresZero ==
    (pc = "merged" /\ llm_outcome.kind = "returned" /\ ~llm_outcome.valid) =>
        /\ llm_resume[1].populated = {}
        /\ llm_confidence[1] = PyFloat(0)
        /\ llm_resume[1].confidence_score = PyFloat(0)
        /\ parsed_resume = rule_returned

\* C6: every confidence returned with a record, and stored in its
\* confidence_score, is a number in [0, 1], on the rule-based and on the
\* generative path.
C6_ConfidenceInUnitInterval ==
    /\ confidence # <<>> =>
        /\ InUnitInterval(confidence[1])
        /\ InUnitInterval(rule_returned[1].confidence_score)
    /\ llm_confidence # <<>> =>
        /\ InUnitInterval(llm_confidence[1])
        /\ InUnitInterval(llm_resume[1].confidence_score)

\* C7: an empty or whitespace-only extracted text ends the request with
\* HTTP 400 "No text could be extracted from file"; neither parser runs on
\* it and no record is returned.
C7_NoTextIsRejected ==
    (text # <<>> /\ Strip(text[1]) = <<>>) =>
        /\ rule_calls = 0
        /\ llm_calls = 0
        /\ rule_returned = <<>>
        /\ pc \in {"extracted", "done"}
        /\ Done =>
            Resp = HTTPError(400, "No text could be extracted from file")
C7_Witness ==
    /\ Done
    /\ text = << <<" ">> >>
    /\ Resp.kind = "HTTPException"
    /\ Resp.status = 400
    /\ Resp.data = <<>>
    /\ rule_calls = 0

\* C8 (as stated): escalation to a provider that is not available is
\* reported to the caller as an error; the request does not end as an
\* ordinary success.
C8_UnavailableProviderIsReported ==
    (Done /\ llm_calls > 0 /\ Unavailable) => ~Resp.success
\* C8 (amended): escalation to a provider that is not available raises
\* inside LLMParser.parse before any provider client is called; the
\* controller swallows it and the request ends as an ordinary success with
\* the rule-based record and no error text.
C8_UnavailableProviderIsSwallowed ==
    (llm_calls > 0 /\ Unavailable) =>
        /\ openai_calls = 0
        /\ anthropic_calls = 0
        /\ llm_outcome.kind = "raised"
        /\ llm_outcome.cause = "unavailable"
        /\ Done =>
            /\ Resp = ParseResponse(TRUE, Resp.data, "")
            /\ Len(Resp.data) = 1
            /\ Resp.data[1].parsing_method = "rule_based"
C8_Witness ==
    /\ Done
    /\ llm_calls = 1
    /\ llm_provider = "gemini"
    /\ openai_client
    /\ anthropic_client
    /\ Resp.success
    /\ Resp.error = ""

\* C9: LLMParser.parse calls the client of the requested provider only,
\* never another one, and a record it returns is tagged "llm_" + provider.
C9_ProviderFidelity ==
    /\ openai_calls > 0 => (llm_provider = "openai" /\ openai_client)
    /\ anthropic_calls > 0 => (llm_provider = "anthropic" /\ anthropic_client)
    /\ openai_calls + anthropic_calls <= 1
    /\ llm_resume # <<>> =>
        llm_resume[1].parsing_method = "llm_" \o llm_provider
C9_Witness ==
    /\ Done
    /\ llm_calls = 1
    /\ llm_provider = "anthropic"
    /\ ~anthropic_client
    /\ openai_client
    /\ openai_calls = 0
    /\ anthropic_calls = 0

\* C10 (as stated): LLMParser.parse raises only when the requested provider
\* is not configured or not available.
C10_RaisesOnlyWhenUnavailable ==
    llm_outcome.kind = "raised" => Unavailable
\* C10 (amended): LLMParser.parse raises when the requested provider is not
\* available, when the provider call fails, or when the response is not
\* parseable JSON; a JSON payload, schema-valid or not, yields a returned
\* pair.
C10_RaisesUnlessJSON ==
    /\ llm_outcome.kind = "raised" <=>
          llm_outcome.cause \in {"unavailable", "api_error", "not_json"}
    /\ llm_outcome.kind = "returned" <=> llm_outcome.cause = "json"
    /\ llm_outcome.cause = "unavailable" <=> (llm_calls > 0 /\ Unavailable
                                               /\ pc # "escalating")
    /\ (llm_outcome.kind = "returned" /\ pc = "merged") =>
          (Len(llm_resume) = 1 /\ Len(llm_confidence) = 1)
C10_Witness ==
    /\ pc = "merged"
    /\ llm_outcome.kind = "returned"
    /\ llm_outcome.cause = "json"
    /\ ~llm_outcome.valid
    /\ Len(llm_resume) = 1
    /\ ~Unavailable

\* C11: the rule-based confidence is the sum of the weights of the
\* populated fields (name .15, email .15, phone .10, experience .20,
\* education .15, skills .15, summary .05, certifications .025,
\* projects .025); the weights sum to 1.0, so the score is 1.0 exactly when
\* all nine fields are populated and 0 exactly when none is.
C11_Weight(f) ==
    CASE f = "full_name" -> 150
      [] f = "email" -> 150
      [] f = "phone" -> 100
      [] f = "experience" -> 200
      [] f = "education" -> 150
      [] f = "skills" -> 150
      [] f = "summary" -> 50
      [] f = "certifications" -> 25
      [] f = "projects" -> 25
RECURSIVE C11_WeightSum(_)
C11_WeightSum(S) ==
    IF S = {} THEN 0
    ELSE LET f == CHOOSE x \in S : TRUE
         IN  C11_Weight(f) + C11_WeightSum(S \ {f})
C11_RuleConfidenceIsWeightSum ==
    rule_returned # <<>> =>
        LET p == rule_returned[1].populated
            c == rule_returned[1].confidence_score
        IN  /\ confidence # <<>> => confidence[1] = c
            /\ c = PyFloat(C11_WeightSum(p))
            /\ C11_WeightSum(RuleScoredFields) = 1000
            /\ c.v = 1000 <=> p = RuleScoredFields
            /\ c.v = 0 <=> p = {}
C11_Witness ==
    /\ Done
    /\ rule_returned # <<>>
    /\ rule_returned[1].populated = RuleScoredFields
    /\ Resp.success
    /\ Resp.data[1].confidence_score = PyFloat(1000)

\* C12: on a successful generative parse the confidence the adapter returns
\* is the sum of the generative weights of the populated fields (name .20,
\* email .15, phone .10, experience .25, education .15, skills .10,
\* summary .05), and the record's confidence_score holds the same value.
C12_GenerativeConfidenceIsWeightSum ==
    (pc = "merged" /\ llm_outcome.kind = "returned" /\ llm_outcome.valid) =>
        /\ llm_confidence[1] = PyFloat(LLMScore(llm_resume[1].populated))
        /\ llm_resume[1].confidence_score = llm_confidence[1]

\* the outcome of the latest call of rule_parser.parse
LastParse == rp_result[1]

SegLines == StripEach(Split(seg_text, <<NL>>))
\* for each line of the text, the section it opens or "None"
LineKinds ==
    LET lines == SegLines
    IN  [i \in 1..Len(lines) |->
            IF lines[i] = <<>> THEN "None" ELSE section_found(lines[i])]
\* the positions of the lines recognised as a section header
HeaderLines ==
    LET kinds == LineKinds
    IN  {i \in DOMAIN kinds : kinds[i] # "None"}
\* [line for line in seq if line]
RECURSIVE C14_NonBlank(_)
C14_NonBlank(seq) ==
    IF seq = <<>> THEN <<>>
    ELSE IF Head(seq) = <<>> THEN C14_NonBlank(Tail(seq))
    ELSE <<Head(seq)>> \o C14_NonBlank(Tail(seq))
\* the record the extractors build from the segmenter's result
SegRecord == ExtractedFields(seg_text, seg_locals.sections)

\* C14: when no line of the text is recognised as a section header, the
\* segmenter's map has the single key 'header', holding the non-blank lines
\* of the text in order, and the record has empty experience, education,
\* skills, certifications, projects and languages and a null summary.
C14_NoHeaderDocument ==
    (seg_pc = "done" /\ HeaderLines = {}) =>
        /\ DOMAIN seg_locals.sections = {"header"}
        /\ seg_locals.sections["header"] = Join(C14_NonBlank(SegLines), <<NL>>)
        /\ SegRecord.experience = <<>>
        /\ SegRecord.education = <<>>
        /\ SegRecord.skills = <<>>
        /\ SegRecord.certifications = <<>>
        /\ SegRecord.projects = <<>>
        /\ SegRecord.languages = <<>>
        /\ SegRecord.summary = <<>>
C14_Witness ==
    /\ seg_pc = "done"
    /\ HeaderLines = {}
    /\ Len(SegLines) = 4
    /\ SegLines[2] = <<>>
    /\ seg_locals.sections = ("header" :> <<"C", NL, "G", "o", NL, "C">>)
    /\ SegRecord.personal_info.full_name = <<<<"C">>>>

\* the header lines that open the section sec
Opened(kinds, sec) == {i \in DOMAIN kinds : kinds[i] = sec}
\* the content lines that follow the header line i, up to the next header
\* line or the end of the text, joined as a blob
ContentAfter(kinds, i) ==
    LET later == {j \in DOMAIN kinds : j > i /\ kinds[j] # "None"}
        next == IF later = {} THEN Len(kinds) + 1
                ELSE CHOOSE j \in later : \A k \in later : j <= k
    IN  Join(C14_NonBlank(SubSeq(SegLines, i + 1, next - 1)), <<NL>>)
SectionNames == {section_keywords[k].section : k \in 1..Len(section_keywords)}
\* the blob stored for sec, '' when there is none
Blob(sec) == DictGet(seg_locals.sections, sec)

\* C15: when the same section name is opened by two header lines, the blob
\* stored for that section is the content that follows the later header.
C15_LaterHeaderReplaces ==
    seg_pc = "done" =>
        LET kinds == LineKinds
        IN  \A sec \in SectionNames :
                LET opened == Opened(kinds, sec)
                    last == CHOOSE i \in opened : \A j \in opened : j <= i
                IN  Cardinality(opened) >= 2 =>
                        Blob(sec) = ContentAfter(kinds, last)
\* C15, amended: the blob is the content that follows the latest header of
\* that name that is followed by content; it replaces the content of the
\* earlier occurrences and is never concatenated with it.  A header that is
\* followed by no content line stores nothing and leaves the earlier blob.
C15_LatestContentReplaces ==
    seg_pc = "done" =>
        LET kinds == LineKinds
        IN  \A sec \in SectionNames :
                LET opened == Opened(kinds, sec)
                    filled == {i \in opened : ContentAfter(kinds, i) # <<>>}
                    last == CHOOSE i \in filled : \A j \in filled : j <= i
                IN  Cardinality(opened) >= 2 =>
                        Blob(sec) = IF filled = {} THEN <<>>
                                    ELSE ContentAfter(kinds, last)
C15_Witness ==
    /\ seg_pc = "done"
    /\ SegLines = << <<"S", "k", "i", "l", "l", "s">>, <<"G", "o">>,
                     <<"S", "k", "i", "l", "l", "s">>, <<"C">> >>
    /\ Opened(LineKinds, "skills") = {1, 3}
    /\ seg_locals.sections = ("skills" :> <<"C">>)

\* C16: Scenario A, personal info: the record has full_name 'John Smith',
\* email 'john@x.com' and a populated (non-empty) phone, whose weight is
\* counted in the confidence.
C16_ScenarioAPersonalInfo ==
    rp_text = <<ScenarioA>> =>
        /\ ~LastParse.raised
        /\ LastParse.fields[1].personal_info.full_name =
               <<<<"J", "o", "h", "n", " ", "S", "m", "i", "t", "h">>>>
        /\ LastParse.fields[1].personal_info.email =
               <<<<"j", "o", "h", "n", "@", "x", ".", "c", "o", "m">>>>
        /\ Truthy(LastParse.fields[1].personal_info.phone)
        /\ "phone" \in LastParse.record[1].populated

\* C17: Scenario A, experience: the record has exactly one experience
\* entry, with position 'Senior Dev', company 'Acme Corp' and is_current
\* true.
C17_ScenarioAExperience ==
    rp_text = <<ScenarioA>> =>
        /\ ~LastParse.raised
        /\ Len(LastParse.fields[1].experience) = 1
        /\ LastParse.fields[1].experience[1].position =
               <<<<"S", "e", "n", "i", "o", "r", " ", "D", "e", "v">>>>
        /\ LastParse.fields[1].experience[1].company =
               <<<<"A", "c", "m", "e", " ", "C", "o", "r", "p">>>>
        /\ LastParse.fields[1].experience[1].is_current

\* how the decoding of the response ended
Decoded == car_result[1]
\* the positions of the first "{" and of the last "}" of the response, 0
\* when there is none
FirstOpen ==
    LET opens == {i \in 1..Len(car_content) : car_content[i] = "{"}
    IN  IF opens = {} THEN 0 ELSE CHOOSE i \in opens : \A j \in opens : i <= j
LastClose ==
    LET closes == {i \in 1..Len(car_content) : car_content[i] = "}"}
    IN  IF closes = {} THEN 0 ELSE CHOOSE i \in closes : \A j \in closes : j <= i
\* the response has a JSON object at the positions i..j
ObjectAt(i, j) ==
    /\ i < j
    /\ car_content[i] = "{"
    /\ car_content[j] = "}"
    /\ \A k \in (i + 1)..(j - 1) : car_content[k] = " "
\* the response contains a JSON object, the rest being commentary
ContainsObject ==
    \E i, j \in 1..Len(car_content) : ObjectAt(i, j)
\* it contains one with no "{" in the commentary before it and no "}" in
\* the commentary after it
ContainsObjectInPlainCommentary ==
    \E i, j \in 1..Len(car_content) :
        /\ ObjectAt(i, j)
        /\ \A k \in 1..(i - 1) : car_content[k] # "{"
        /\ \A k \in (j + 1)..Len(car_content) : car_content[k] # "}"
\* the response is a JSON object with nothing but blanks around it
IsObjectOnly ==
    \E i, j \in 1..Len(car_content) :
        /\ ObjectAt(i, j)
        /\ \A k \in (1..(i - 1)) \cup ((j + 1)..Len(car_content)) :
              car_content[k] = " "

\* C18: when a free-text provider's response contains a JSON object
\* surrounded by commentary, the adapter parses exactly the substring from
\* the first '{' to the last '}' (inclusive), without error; a
\* structured-output provider's payload is parsed as-is.
C18_CarvedObjectParses ==
    car_pc = "decoded" =>
        /\ (car_provider = "anthropic" /\ ContainsObject) =>
              /\ Decoded.json_content =
                     SubSeq(car_content, FirstOpen, LastClose)
              /\ Decoded.kind = "json"
        /\ car_provider = "openai" => Decoded.json_content = car_content
\* C18, amended: the substring from the first '{' to the last '}' is what
\* is parsed, and it parses without error exactly when the commentary has
\* no '{' before the object and no '}' after it; the structured-output
\* payload is parsed as-is, without error exactly when it is JSON.
C18_CarvedObjectParsesInPlainCommentary ==
    car_pc = "decoded" =>
        /\ (car_provider = "anthropic" /\ ContainsObject) =>
              /\ Decoded.json_content =
                     SubSeq(car_content, FirstOpen, LastClose)
              /\ Decoded.kind = "json" <=> ContainsObjectInPlainCommentary
        /\ car_provider = "openai" =>
              /\ Decoded.json_content = car_content
              /\ Decoded.kind = "json" <=> IsObjectOnly
C18_Witness ==
    /\ car_pc = "decoded"
    /\ car_provider = "anthropic"
    /\ car_content = <<"t", "{", "}", "t">>
    /\ Decoded.json_content = <<"{", "}">>
    /\ Decoded.kind = "json"

\* C19: a fault raised inside one field extractor (model validation
\* rejecting an extracted value) does not propagate out of
\* RuleBasedParser.parse: the call returns a record.
C19_ExtractorFaultIsIsolated ==
    rp_result # <<>> =>
        /\ ~LastParse.raised
        /\ Len(LastParse.record) = 1

\* C20: within one request the rule-based parse (segment, extract, score)
\* comes first, then at most one escalation, then the merge; the generative
\* provider is called at most once, with no retry after a failure and no
\* second provider.
C20_SingleAttemptInOrder ==
    /\ rule_calls <= 1
    /\ llm_calls <= 1
    /\ openai_calls + anthropic_calls <= llm_calls
    /\ (pc = "escalating" \/ llm_calls > 0) =>
          (rule_calls = 1 /\ rule_returned # <<>>)
    /\ pc = "escalating" => (llm_calls = 0 /\ llm_outcome.kind = "none")
    /\ pc = "awaiting" =>
          (llm_calls = 1 /\ openai_calls + anthropic_calls = 1
             /\ llm_outcome.kind = "none")
    /\ llm_outcome.kind # "none" => pc \in {"merged", "done"}
    /\ pc = "merged" => (rule_calls = 1 /\ Len(parsed_resume) = 1)
C20_Witness ==
    /\ Done
    /\ rule_calls = 1
    /\ llm_calls = 1
    /\ openai_calls = 1
    /\ anthropic_calls = 0
    /\ llm_outcome.kind = "raised"
    /\ llm_outcome.cause = "api_error"
    /\ anthropic_client
    /\ Resp.success

\* the seven section names in the order of the keyword dictionary
C23_Order ==
    <<"experience", "education", "skills", "certifications", "projects",
      "summary", "languages">>
\* some synonym of the section sec occurs in the line, letter case aside
C23_HasSynonym(line, sec) ==
    \E i \in 1..Len(section_keywords) :
        /\ section_keywords[i].section = sec
        /\ \E k \in 1..Len(section_keywords[i].keywords) :
            LET kw == section_keywords[i].keywords[k]
            IN  \E p \in 1..Len(line) :
                    /\ p + Len(kw) - 1 <= Len(line)
                    /\ str_lower(SubSeq(line, p, p + Len(kw) - 1)) =
                           str_lower(kw)
C23_IsHeader(line) ==
    /\ Len(line) < 50
    /\ \E j \in 1..Len(C23_Order) : C23_HasSynonym(line, C23_Order[j])
C23_SectionOf(line) ==
    LET hits == {j \in 1..Len(C23_Order) : C23_HasSynonym(line, C23_Order[j])}
    IN  C23_Order[CHOOSE j \in hits : \A h \in hits : j <= h]

\* C23: a non-blank stripped line is a section header if and only if it is
\* shorter than 50 characters and contains, letter case aside, a synonym of
\* the keyword dictionary; the current section is then the first entry, in
\* the order experience, education, skills, certifications, projects,
\* summary, languages, that has a matching synonym; every other non-blank
\* line is appended to the current section, which starts as 'header'.
C23_HeaderRule ==
    LET lines == SegLines
        n == Len(lines) - Len(seg_lines)
        heads == {i \in 1..n : lines[i] # <<>> /\ C23_IsHeader(lines[i])}
        last == IF heads = {} THEN 0
                ELSE CHOOSE i \in heads : \A h \in heads : h <= i
    IN  /\ seg_locals.current_section =
               IF heads = {} THEN "header" ELSE C23_SectionOf(lines[last])
        /\ seg_locals.current_content =
               C14_NonBlank(SubSeq(lines, last + 1, n))
C23_Witness ==
    /\ seg_text = Join(<<LineTwoSections, Line50>>, <<NL>>)
    /\ seg_lines = <<>>
    /\ seg_locals.current_section = "education"
    /\ seg_locals.current_content = <<Line50>>
    /\ Len(Line50) = 50
    /\ Contains(str_lower(Line50), <<"s", "k", "i", "l", "l", "s">>)

\* the blob the segmenter stored for the section sec in the last parse
LastBlob(sec) == DictGet(rp_sections, sec)

\* C24: when the education section of the text consists of k >= 1 groups of
\* lines separated by blank lines, parse returns k Education entries, one
\* per group: the two groups of DocTwoSchools give two entries.
C24_OneEntryPerGroup ==
    rp_text = <<DocTwoSchools>> =>
        /\ ~LastParse.raised
        /\ Len(LastParse.fields[1].education) = 2

\* the entries of the experience blob, as lists of stripped non-blank lines
C25_Entries ==
    LET entries == ExperienceEntries(LastBlob("experience"))
    IN  [i \in 1..Len(entries) |->
            StrippedNonBlank(Split(entries[i], <<NL>>))]
\* the entries that have at least two lines, in order
C25_Kept == SelectSeq(C25_Entries, LAMBDA lines : Len(lines) >= 2)
\* the text of the line before the first sep and after it up to the next
C25_Before(line, sep) ==
    LET at == CHOOSE p \in 1..Len(line) :
                  line[p] = sep /\ \A q \in 1..(p - 1) : line[q] # sep
    IN  Strip(SubSeq(line, 1, at - 1))
C25_After(line, sep) ==
    LET at == CHOOSE p \in 1..Len(line) :
                  line[p] = sep /\ \A q \in 1..(p - 1) : line[q] # sep
        later == {p \in (at + 1)..Len(line) : line[p] = sep}
        stop == IF later = {} THEN Len(line) + 1
                ELSE CHOOSE p \in later : \A q \in later : p <= q
    IN  Strip(SubSeq(line, at + 1, stop - 1))
C25_Has(line, sep) == \E p \in 1..Len(line) : line[p] = sep

\* C25: for each experience entry, a first line 'A | B' gives company A and
\* position B; otherwise a first line 'A, B' gives position A and company
\* B; otherwise the whole first line is the position and company is null;
\* '|' takes precedence over ','; the remaining lines of the entry are the
\* description.
C25_FirstLineHeuristic ==
    (rp_result # <<>> /\ ~LastParse.raised) =>
        LET kept == C25_Kept
            got == LastParse.fields[1].experience
        IN  /\ Len(got) = Len(kept)
            /\ \A i \in 1..Len(kept) :
                LET first == kept[i][1]
                IN  /\ got[i].description = Join(Tail(kept[i]), <<NL>>)
                    /\ IF C25_Has(first, "|")
                       THEN /\ got[i].company = <<C25_Before(first, "|")>>
                            /\ got[i].position = <<C25_After(first, "|")>>
                       ELSE IF C25_Has(first, ",")
                       THEN /\ got[i].position = <<C25_Before(first, ",")>>
                            /\ got[i].company = <<C25_After(first, ",")>>
                       ELSE /\ got[i].position = <<first>>
                            /\ got[i].company = <<>>
C25_Witness ==
    /\ rp_text = <<DocTwoJobs>>
    /\ Len(LastParse.fields[1].experience) = 2
    /\ LastParse.fields[1].experience[1].company =
           <<<<"L", "e", "a", "d", ",", " ", "E", "n", "g">>>>
    /\ LastParse.fields[1].experience[1].position =
           <<<<"B", "i", "g", " ", "C", "o">>>>
    /\ LastParse.fields[1].experience[2].company = <<>>
    /\ LastParse.fields[1].experience[2].position = <<<<"I", "B", "M">>>>
    /\ LastParse.fields[1].experience[2].description =
           <<"r", "a", "n", " ", "o", "p", "s">>

\* C29: an experience entry with fewer than two non-blank lines is skipped,
\* so an experience section that consists of a single line yields an empty
\* experience list and the experience weight is not added to the rule-based
\* confidence.
C29_ShortEntrySkipped ==
    (rp_result # <<>> /\ ~LastParse.raised) =>
        LET entries == C25_Entries
            long == {i \in 1..Len(entries) : Len(entries[i]) >= 2}
            lines == Split(LastBlob("experience"), <<NL>>)
        IN  /\ Len(LastParse.fields[1].experience) = Cardinality(long)
            /\ (LastBlob("experience") # <<>> /\ Len(lines) = 1) =>
                  /\ LastParse.fields[1].experience = <<>>
                  /\ "experience" \notin LastParse.record[1].populated
                  /\ LastParse.confidence[1] =
                         PyFloat(C11_WeightSum(
                             LastParse.record[1].populated \ {"experience"}))
C29_Witness ==
    /\ rp_text = <<DocOneLine>>
    /\ LastBlob("experience") = <<"D", "e", "v", " ", "a", "t", " ", "C", "o">>
    /\ LastParse.fields[1].experience = <<>>
    /\ LastParse.fields[1].certifications # <<>>
    /\ "experience" \notin LastParse.record[1].populated

\* the stripped lines of a blob
BlobLines(blob) == StripEach(Split(blob, <<NL>>))

\* C28: in every state of the segmenter and in its result, each key of the
\* map is 'header' or one of the seven section names, each stored blob is
\* non-empty, and no blob contains a blank line or a line that was
\* recognised as a section header; so the education and the projects
\* extractor, which split on a blank line, each see at most one entry.
C28_BlobsHaveNoBlankOrHeaderLine ==
    LET secs == seg_locals.sections
    IN  /\ DOMAIN secs \subseteq {"header"} \cup SectionNames
        /\ \A k \in DOMAIN secs :
            LET lines == BlobLines(secs[k])
            IN  /\ secs[k] # <<>>
                /\ \A i \in 1..Len(lines) :
                    /\ lines[i] # <<>>
                    /\ section_found(lines[i]) = "None"
                /\ Len(Split(secs[k], <<NL, NL>>)) = 1
        /\ Len(_extract_education(secs)) <= 1
        /\ Len(_extract_projects(secs)) <= 1
C28_Witness ==
    /\ seg_pc = "done"
    /\ SegLines = << <<"E", "d", "u", "c", "a", "t", "i", "o", "n">>,
                     <<"G", "o">>, <<>>, <<"C">> >>
    /\ seg_locals.sections = ("education" :> <<"G", "o", NL, "C">>)
    /\ Len(_extract_education(seg_locals.sections)) = 1

\* a generative record came back from a payload that validated
GenerativeReturned ==
    pc = "merged" /\ llm_outcome.kind = "returned" /\ llm_outcome.valid

\* C26: the generative weight table (name .20, email .15, phone .10,
\* experience .25, education .15, skills .10, summary .05) does not sum to
\* 1.0, so a generative record with all seven scored fields populated does
\* not get confidence exactly 1.0.
C26_GenerativeTableFallsShort ==
    (GenerativeReturned /\ llm_resume[1].populated = LLMScoredFields) =>
        /\ llm_outcome.score # 1000
        /\ llm_confidence[1] # PyFloat(1000)
\* C26, amended: the generative weight table sums to exactly 1.0, as the
\* rule-based table does: the score accumulated for a generative record is
\* 1.0 exactly when all seven scored fields are populated.  The confidence
\* the adapter returns is nevertheless None, for every record, because the
\* scorer has no return statement.
C26_GenerativeTableSumsToOne ==
    GenerativeReturned =>
        /\ llm_outcome.score = 1000 <=>
               llm_resume[1].populated = LLMScoredFields
        /\ llm_outcome.score <= 1000
        /\ C11_WeightSum(RuleScoredFields) = 1000
        /\ llm_confidence[1] = PyNone
C26_Witness ==
    /\ GenerativeReturned
    /\ llm_resume[1].populated = LLMScoredFields
    /\ llm_outcome.score = 1000
    /\ llm_confidence = <<PyNone>>

\* rule_parser.parse has returned a record in this request
RuleReturned == rule_returned # <<>> /\ pc # "idle"

\* C27: a rule-based record with no experience entry has confidence at most
\* 0.80, below the 0.85 threshold, so with fallback enabled the generative
\* extractor is always invoked for it; escalation is skipped, with fallback
\* enabled, only for records that have at least one experience entry.
C27_NoExperienceEscalates ==
    RuleReturned =>
        LET rec == rule_returned[1]
        IN  /\ "experience" \notin rec.populated =>
                /\ rec.confidence_score.v <= 800
                /\ rec.confidence_score.v < RULE_CONFIDENCE_THRESHOLD
                /\ use_llm_fallback =>
                      \/ pc = "escalating" /\ llm_calls = 0
                      \/ pc \in {"awaiting", "merged", "done"}
                            /\ llm_calls = 1
            /\ (use_llm_fallback /\ llm_calls = 0 /\ pc \in {"merged", "done"})
                   => "experience" \in rec.populated
C27_Witness ==
    /\ RuleReturned
    /\ use_llm_fallback
    /\ rule_returned[1].populated = RuleScoredFields \ {"experience"}
    /\ rule_returned[1].confidence_score = PyFloat(800)
    /\ pc = "merged"
    /\ llm_calls = 1

\* some part of the payload fails validation: the value is not an object,
\* or a key has a value its field rejects, or null where the field is not
\* optional
C30_SomePartFails ==
    \/ val_payload.top # "object"
    \/ \E key \in PayloadKeys :
          \/ val_payload.parts[key] = "bad"
          \/ val_payload.parts[key] = "null" /\ key # "summary"

\* C30: generative payload validation is all-or-nothing: if any single part
\* of the provider's JSON fails validation (personal_info or experience
\* given as null, the top-level value not being an object),
\* _convert_to_pydantic discards the whole payload and returns the default
\* empty record, so no valid field of the payload reaches the merge; extra
\* unknown keys alone never cause this.
C30_ValidationIsAllOrNothing ==
    val_pc = "converted" =>
        /\ C30_SomePartFails => val_result[1] = DefaultParsedResume
        /\ ~C30_SomePartFails =>
              \A key \in PayloadKeys :
                  val_payload.parts[key] = "ok" =>
                      FieldsOf(key) \subseteq val_result[1].populated
C30_Witness ==
    /\ val_pc = "converted"
    /\ val_payload.top = "object"
    /\ val_payload.parts["personal_info"] = "ok"
    /\ val_payload.parts["skills"] = "ok"
    /\ val_payload.parts["experience"] = "null"
    /\ \A key \in PayloadKeys \ {"personal_info", "skills", "experience"} :
          val_payload.parts[key] = "absent"
    /\ ~val_payload.extra
    /\ val_result = <<DefaultParsedResume>>

\* a response with the processing time of its record set aside
C21_Untimed(resp) ==
    IF resp.data = <<>> THEN resp
    ELSE [resp EXCEPT !.data = <<Untimed(resp.data[1])>>]
\* what parse_resume_sync returns for the request q when run alone from
\* start to end on what q was given: the extracted text (none when the
\* extraction raised), the fields the extractors populated (none when the
\* parse raised) and the provider's response
C21_Alone(q) ==
    IF q.seen.text = <<>>
    THEN ParseResponse(FALSE, <<>>, "Processing failed")
    ELSE IF NoText(q.seen.text[1])
    THEN HTTPError(400, "No text could be extracted from file")
    ELSE IF q.seen.fields = <<>>
    THEN ParseResponse(FALSE, <<>>, "Processing failed")
    ELSE LET rule == RuleBasedParser_parse(q.seen.fields[1])
             client == LLMParser_parse(q.llm_provider, openai_client,
                                       anthropic_client)
             gen == _parse_with_provider(client, q.seen.resp[1])
         IN  IF ~ShouldEscalate(rule.confidence, q.use_llm_fallback)
                \/ client = ""
             THEN ParseResponse(TRUE, <<rule.record>>, "")
             ELSE IF gen.raised
             THEN ParseResponse(TRUE, <<rule.record>>, "")
             ELSE ParseResponse(TRUE,
                      <<Merge(rule.record, rule.confidence, gen.record,
                              gen.confidence)>>, "")

C22_SlowOperations == {"pdf_text", "render", "ocr", "docx", "awaiting"}
\* the request has begun and has not returned
C22_Pending(r) == req[r].pc \notin {"idle", "done"}

\* C22: every potentially slow operation of a request (the text
\* extraction, with the PDF text-layer read, the page rendering and the
\* OCR, and the generative model's network call) runs off the event loop's
\* scheduling path: while one request is inside such an operation any other
\* pending request can still take steps.
C22_SlowOperationsOffLoop ==
    \A r, s \in ReqIds :
        (r # s /\ req[r].pc \in C22_SlowOperations /\ C22_Pending(s)) =>
            ENABLED ReqStep(s)

=============================================================================
